---- MODULE Spec2Model ----
(***************************************************************************)
(* Pulselytics ML core: the model store (backend/ml_models/storage.py),    *)
(* the engagement predictor (predictor.py) and the anomaly detector        *)
(* (anomaly_detector.py), as a state machine.                              *)
(*                                                                         *)
(* State: the store directory (registry document, one binary per artifact  *)
(* and version, the feature-names document), the two process-wide          *)
(* singletons, and the position of every request thread inside the call it *)
(* is running.  A process stop loses the singletons and the threads and    *)
(* keeps the store; the next process start reloads the singletons.         *)
(***************************************************************************)
EXTENDS Integers, Sequences, FiniteSets, TLC

(***************************************************************************)
(* Program constants                                                       *)
(***************************************************************************)
PREDICTOR_VERSION == "1.1"
ANOMALY_VERSION == "1.0"
MIN_TRAIN_SAMPLES_PREDICTOR == 50
MIN_TRAIN_SAMPLES_DETECTOR == 30
\* predictor.py line 70: rows that must survive the zero-target filter
MIN_VALID_ROWS == 30
SKLEARN_AVAILABLE == TRUE
JOBLIB_AVAILABLE == TRUE

(***************************************************************************)
(* Bounds of the model                                                     *)
(***************************************************************************)
\* training calls that get past the sample gate, over the whole run
MaxTrains == 2
\* predict and detect calls that run interleaved with other threads
MaxReads == 1

Threads == {"t1", "t2"}
MainThread == "t1"

(***************************************************************************)
(* Post batches (pandas DataFrames).  A batch is a list of groups of       *)
(* identical rows plus the set of columns the frame has.                   *)
(***************************************************************************)
MetricCols == {"likes", "comments", "views"}

Group(c, l, cm, v, p) ==
    [count |-> c, likes |-> l, comments |-> cm, views |-> v, platform |-> p]

Frame(gs, cols) == [groups |-> gs, cols |-> cols]

\* batches handed to train_predictor: the minimum with views, one row short,
\* two engagement levels without views, 29 valid rows of 50, no views column
PredictorBatches ==
    { Frame(<<Group(50, 5, 2, 40, "instagram")>>, MetricCols),
      Frame(<<Group(49, 5, 2, 40, "instagram")>>, MetricCols),
      Frame(<<Group(20, 9, 3, 0, "instagram"), Group(30, 1, 1, 0, "instagram")>>, MetricCols),
      Frame(<<Group(29, 5, 2, 40, "youtube"), Group(21, 0, 4, 40, "twitter")>>, MetricCols),
      Frame(<<Group(50, 5, 2, 0, "instagram")>>, {"likes", "comments"}) }

\* batches handed to train_detector: the minimum, one row short, no views
\* column, no likes column
DetectorBatches ==
    { Frame(<<Group(30, 4, 1, 20, "facebook")>>, MetricCols),
      Frame(<<Group(29, 4, 1, 20, "facebook")>>, MetricCols),
      Frame(<<Group(30, 5, 2, 0, "instagram")>>, {"likes", "comments"}),
      Frame(<<Group(30, 0, 2, 20, "facebook")>>, {"comments", "views"}) }

\* batches handed to find_anomalies
DetectBatches ==
    { Frame(<<Group(30, 4, 1, 20, "facebook")>>, MetricCols),
      Frame(<<Group(30, 5, 2, 0, "instagram")>>, {"likes", "comments"}),
      Frame(<<Group(30, 0, 2, 20, "facebook")>>, {"comments", "views"}) }

RECURSIVE SumCounts(_)
SumCounts(gs) ==
    IF gs = <<>> THEN 0 ELSE Head(gs).count + SumCounts(Tail(gs))

\* len(df)
DfLen(df) == SumCounts(df.groups)

\* valid_idx = (y_likes > 0) & (y_comments > 0)
IsValidRow(g) == g.likes > 0 /\ g.comments > 0
ValidGroups(df) == SelectSeq(df.groups, IsValidRow)
ValidLen(df) == SumCounts(ValidGroups(df))

RECURSIVE SumViews(_)
SumViews(gs) ==
    IF gs = <<>> THEN 0 ELSE Head(gs).count * Head(gs).views + SumViews(Tail(gs))

\* y_views.sum() > 0 over the rows that survived the filter
HasViewsData(df) == SumViews(ValidGroups(df)) > 0

(***************************************************************************)
(* Feature builder (features.py)                                           *)
(***************************************************************************)
TimeFeatures == <<"hour_of_day", "day_of_week", "is_weekend", "month">>
CaptionFeatures ==
    <<"caption_length", "word_count", "hashtag_count", "mention_count",
      "emoji_count", "has_question", "has_exclamation", "has_url">>

\* pd.get_dummies sorts the categories; the column of value p is platform_p
PlatformOrder == <<"facebook", "instagram", "twitter", "unknown", "youtube">>
PlatformColumn ==
    [facebook |-> "platform_facebook", instagram |-> "platform_instagram",
     twitter |-> "platform_twitter", unknown |-> "platform_unknown",
     youtube |-> "platform_youtube"]

RECURSIVE DummyColumns(_, _)
DummyColumns(order, present) ==
    IF order = <<>> THEN <<>>
    ELSE (IF Head(order) \in present THEN <<PlatformColumn[Head(order)]>> ELSE <<>>)
         \o DummyColumns(Tail(order), present)

PlatformsOf(gs) == {gs[i].platform : i \in DOMAIN gs}

\* build_features(df).columns: every row of the frame contributes its platform
FeatureColumnsOf(platforms) ==
    TimeFeatures \o CaptionFeatures \o DummyColumns(PlatformOrder, platforms)
        \o <<"avg_engagement_rate">>

FeatureColumns(df) ==
    IF DfLen(df) = 0 THEN <<>> ELSE FeatureColumnsOf(PlatformsOf(df.groups))

SeqToSet(s) == {s[i] : i \in DOMAIN s}

\* a one-row feature table: its column list and the value under each column.
\* build_features of the frame predict_post_performance makes of a post
\* (predictor.py:161-169); a post of the model carries the length of its
\* caption, whether it has a '#' and whether it has a '!', the other caption
\* features are 0, the clock reads 09:00 on a Wednesday in November, and
\* avg_engagement_rate (0.05) is held in hundredths
PostFeatureRow(post) ==
    LET columns == FeatureColumnsOf({post.platform})
    IN  [columns |-> columns,
         row |-> [c \in SeqToSet(columns) |->
                     CASE c = "hour_of_day" -> 9
                       [] c = "day_of_week" -> 2
                       [] c = "month" -> 11
                       [] c = "caption_length" -> post.caption_length
                       [] c = "hashtag_count" -> IF post.has_hash THEN 1 ELSE 0
                       [] c = "has_exclamation" -> IF post.has_punct THEN 1 ELSE 0
                       [] c = PlatformColumn[post.platform] -> 1
                       [] c = "avg_engagement_rate" -> 5
                       [] OTHER -> 0]]

\* the selection current[reference_columns] without the loop that adds the
\* missing columns: only the reference columns the table has
AlignFeatureColumns_present(current, reference_columns) ==
    LET has(c) == c \in SeqToSet(current.columns)
    IN  [columns |-> SelectSeq(reference_columns, has),
         row |-> [c \in {r \in SeqToSet(reference_columns) : has(r)} |-> current.row[c]]]

\* align_feature_columns(current, reference_columns): the loop sets
\* current[col] = 0 for each reference column the table lacks, and
\* current[reference_columns] keeps the reference columns in their order
AlignFeatureColumns(current, reference_columns) ==
    LET filled == [c \in SeqToSet(current.columns) \cup SeqToSet(reference_columns) |->
                      IF c \in SeqToSet(current.columns) THEN current.row[c] ELSE 0]
    IN  [columns |-> reference_columns,
         row |-> [c \in SeqToSet(reference_columns) |-> filled[c]]]

\* the four columns AnomalyDetector.train fits on
DetectorTrainColumns == <<"likes", "comments", "views", "engagement_rate">>
\* the six columns detect_anomalies builds
DetectorDetectColumns ==
    DetectorTrainColumns \o <<"responsiveness_index", "peak_performance">>

(***************************************************************************)
(* Python objects: None, a StandardScaler, a GradientBoostingRegressor, an *)
(* IsolationForest.  gen names the training call that fitted the object,   *)
(* cols the columns it was fitted on, out the value a fitted regressor     *)
(* predicts for the post being scored.                                     *)
(***************************************************************************)
NoneObj == [kind |-> "none", fitted |-> FALSE, gen |-> 0, cols |-> <<>>, out |-> 0]
NewScaler == [kind |-> "scaler", fitted |-> FALSE, gen |-> 0, cols |-> <<>>, out |-> 0]
NewRegressor == [kind |-> "gbr", fitted |-> FALSE, gen |-> 0, cols |-> <<>>, out |-> 0]
NewForest == [kind |-> "iforest", fitted |-> FALSE, gen |-> 0, cols |-> <<>>, out |-> 0]

FitObj(obj, g, cols, out) ==
    [obj EXCEPT !.fitted = TRUE, !.gen = g, !.cols = cols, !.out = out]

IsNone(obj) == obj.kind = "none"

\* bool(obj): BaseEnsemble.__len__ reads estimators_, which an unfitted
\* ensemble does not have; a scaler has neither __len__ nor __bool__
TruthRaises(obj) == obj.kind \in {"gbr", "iforest"} /\ ~obj.fitted
Truthy(obj) == ~IsNone(obj) /\ ~TruthRaises(obj)

\* What a fitted regressor returns for the scored post.  The fit is seeded
\* (random_state=42), so it is a function of the batch; fitted on rows that all
\* carry the same target it returns that target, and here it returns the target
\* of the first row it was fitted on.
FittedValue(df, target) ==
    LET gs == IF target = "views"
              THEN SelectSeq(ValidGroups(df), LAMBDA g : g.views > 0)
              ELSE ValidGroups(df)
    IN  IF gs = <<>> THEN 0
        ELSE CASE target = "likes" -> Head(gs).likes
               [] target = "comments" -> Head(gs).comments
               [] target = "views" -> Head(gs).views

(***************************************************************************)
(* Model store (storage.py)                                                *)
(***************************************************************************)
PredictorRequired == <<"predictor_scaler", "predictor_likes", "predictor_comments">>
DetectorArtifacts == <<"anomaly_scaler", "anomaly_model">>
Names == SeqToSet(PredictorRequired) \cup {"predictor_views"} \cup SeqToSet(DetectorArtifacts)
Versions == {PREDICTOR_VERSION, ANOMALY_VERSION}

\* a file name that leaves the version out
model_filepath_unversioned(name, version) == <<name, ANOMALY_VERSION>>

\* model_filepath(name, version): <store>/<name>_v<version>.joblib
model_filepath(name, version) == <<name, version>>
Paths == Names \X Versions

\* a validation score, kept as what it is computed from: the columns and the
\* fitted output of the ensemble that was scored
NoR2 == [cols |-> <<>>, out |-> 0]
\* the quantile table, in hundredths
NoQuantiles == [q10 |-> 0, q25 |-> 0, q50 |-> 0, q75 |-> 0, q90 |-> 0]
\* gen stands for trained_on, the time of the training call
NoMeta == [gen |-> 0, samples_trained |-> 0, features_used |-> 0,
           val_r2_likes |-> NoR2, val_r2_comments |-> NoR2, quantiles |-> NoQuantiles]
NoEntry == [present |-> FALSE, version |-> "", meta |-> NoMeta]
EmptyRegistry == [n \in Names |-> NoEntry]

\* a file is absent, cut short by a stop in the middle of the write, or whole
NoFile == [state |-> "none", obj |-> NoneObj]
PartialFile == [state |-> "partial", obj |-> NoneObj]
WholeFile(obj) == [state |-> "ok", obj |-> obj]

NoNamesDoc == [state |-> "none", names |-> <<>>]
PartialNamesDoc == [state |-> "partial", names |-> <<>>]
WholeNamesDoc(names) == [state |-> "ok", names |-> names]

VARIABLES
    regDoc,       \* model_registry.json: [state, entries]
    files,        \* the .joblib binaries, by path
    namesDoc,     \* predictor_features.json
    predictor,    \* the EngagementPredictor singleton
    detector,     \* the AnomalyDetector singleton
    th,           \* per request thread: the call it runs and where it is
    trains,       \* training calls that got past the sample gate so far
    reads         \* step-by-step predict and detect calls started so far

vars == <<regDoc, files, namesDoc, predictor, detector, th, trains, reads>>
store == <<regDoc, files, namesDoc>>

\* load_registry(): {} when the document is absent or does not parse
load_registry(doc) == IF doc.state = "ok" THEN doc.entries ELSE EmptyRegistry

\* reg[name] = {'version': version, **metadata}
RegistryEntry(version, metadata) ==
    [present |-> TRUE, version |-> version, meta |-> metadata]

\* joblib.dump opens the target for writing before it pickles
DumpOpen(fs, path) == [fs EXCEPT ![path] = PartialFile]
DumpDone(fs, path, obj) == [fs EXCEPT ![path] = WholeFile(obj)]

\* save_registry: open(path, 'w') truncates, json.dump then writes the document
RegistryOpen(doc) == [state |-> "truncated", entries |-> EmptyRegistry]
RegistryWritten(reg) == [state |-> "ok", entries |-> reg]

\* an exception leaving a storage call, where an object was expected
RaisedObj == [kind |-> "raise", fitted |-> FALSE, gen |-> 0, cols |-> <<>>, out |-> 0]

\* load_model without the try/except around joblib.load
load_model_uncaught(name, doc, fs) ==
    LET reg == load_registry(doc)
        entry == reg[name]
    IN  IF ~entry.present \/ ~JOBLIB_AVAILABLE THEN NoneObj
        ELSE LET path == <<name, entry.version>>
             IN  IF fs[path].state = "none" THEN NoneObj
                 ELSE IF fs[path].state = "partial" THEN RaisedObj
                 ELSE fs[path].obj

\* load_model(name): the unpickled object, or None
load_model(name, doc, fs) ==
    LET reg == load_registry(doc)
        entry == reg[name]
    IN  IF ~entry.present \/ ~JOBLIB_AVAILABLE THEN NoneObj
        ELSE LET path == model_filepath(name, entry.version)
             IN  IF fs[path].state = "none" THEN NoneObj
                 ELSE IF fs[path].state = "partial" THEN NoneObj
                 ELSE fs[path].obj

\* load_feature_names(): [] when the document is absent or does not parse
load_feature_names(doc) == IF doc.state = "ok" THEN doc.names ELSE <<>>

(***************************************************************************)
(* The singletons                                                          *)
(***************************************************************************)
NoEngagement == [has |-> FALSE, gen |-> 0, dist |-> <<>>]

\* EngagementPredictor.__init__
NewPredictor ==
    [is_trained |-> FALSE, feature_names |-> <<>>, scaler |-> NewScaler,
     model_likes |-> NoneObj, model_comments |-> NoneObj, model_views |-> NoneObj,
     engagement |-> NoEngagement]

NoBaseline == [has |-> FALSE, gen |-> 0]

\* AnomalyDetector.__init__
NewDetector ==
    [is_trained |-> FALSE, scaler |-> NewScaler, model |-> NoneObj,
     baseline_metrics |-> NoBaseline]

\* _load_or_create_predictor() that looks at the scaler alone
LoadOrCreatePredictor_scalerOnly(doc, fs, ndoc) ==
    LET scaler == load_model("predictor_scaler", doc, fs)
    IN  IF Truthy(scaler)
        THEN [NewPredictor EXCEPT !.scaler = scaler,
                                  !.model_likes = load_model("predictor_likes", doc, fs),
                                  !.model_comments = load_model("predictor_comments", doc, fs),
                                  !.model_views = load_model("predictor_views", doc, fs),
                                  !.feature_names = load_feature_names(ndoc),
                                  !.is_trained = TRUE]
        ELSE NewPredictor

\* _load_or_create_predictor()
LoadOrCreatePredictor(doc, fs, ndoc) ==
    LET scaler == load_model("predictor_scaler", doc, fs)
        likes == load_model("predictor_likes", doc, fs)
        comments == load_model("predictor_comments", doc, fs)
        views == load_model("predictor_views", doc, fs)
    IN  IF Truthy(scaler) /\ Truthy(likes) /\ Truthy(comments)
        THEN [NewPredictor EXCEPT !.scaler = scaler, !.model_likes = likes,
                                  !.model_comments = comments, !.model_views = views,
                                  !.feature_names = load_feature_names(ndoc),
                                  !.is_trained = TRUE]
        ELSE NewPredictor

\* _load_or_create_detector()
LoadOrCreateDetector(doc, fs) ==
    LET scaler == load_model("anomaly_scaler", doc, fs)
        model == load_model("anomaly_model", doc, fs)
    IN  IF ~IsNone(scaler) /\ ~IsNone(model)
        THEN [NewDetector EXCEPT !.scaler = scaler, !.model = model, !.is_trained = TRUE]
        ELSE NewDetector

(***************************************************************************)
(* Results of calls.  kind: none (no call yet), error ({"error": ...}),    *)
(* success ({"status": "success", ...}), prediction, anomalies (a list),   *)
(* raise (an exception left the call).                                     *)
(***************************************************************************)
NoValues ==
    [likes |-> 0, comments |-> 0, views |-> 0, rate |-> <<0, 1>>, virality |-> 0,
     confidence |-> "", note |-> FALSE]
NoRet == [kind |-> "none", what |-> "", version |-> "", meta |-> NoMeta, val |-> NoValues]

ErrorResult(reason) == [NoRet EXCEPT !.kind = "error", !.what = reason]
Raised(exc) == [NoRet EXCEPT !.kind = "raise", !.what = exc]
\* {"status": "success", "version": version, **metadata}
SuccessResult(version, metadata) ==
    [NoRet EXCEPT !.kind = "success", !.version = version, !.meta = metadata]
PredictionResult(val) == [NoRet EXCEPT !.kind = "prediction", !.val = val]
AnomalyList(path) == [NoRet EXCEPT !.kind = "anomalies", !.what = path]

(***************************************************************************)
(* Engagement distribution kept by train for the virality score            *)
(***************************************************************************)
RECURSIVE InsertByValue(_, _)
InsertByValue(e, sorted) ==
    IF sorted = <<>> THEN <<e>>
    ELSE IF e.value <= Head(sorted).value THEN <<e>> \o sorted
    ELSE <<Head(sorted)>> \o InsertByValue(e, Tail(sorted))

RECURSIVE SortByValue(_)
SortByValue(es) ==
    IF es = <<>> THEN <<>> ELSE InsertByValue(Head(es), SortByValue(Tail(es)))

\* np.sort((y_likes + y_comments).values) over the valid rows
EngagementSorted(df) ==
    LET gs == ValidGroups(df)
    IN  SortByValue([i \in DOMAIN gs |->
            [value |-> gs[i].likes + gs[i].comments, count |-> gs[i].count]])

\* arr.searchsorted(x, side='right'): how many entries are <= x
RECURSIVE SearchSortedRight(_, _)
SearchSortedRight(dist, x) ==
    IF dist = <<>> THEN 0
    ELSE (IF Head(dist).value <= x THEN Head(dist).count ELSE 0)
         + SearchSortedRight(Tail(dist), x)

\* arr[i], 0-based
RECURSIVE ValueAt(_, _)
ValueAt(dist, i) ==
    IF i < Head(dist).count THEN Head(dist).value
    ELSE ValueAt(Tail(dist), i - Head(dist).count)

\* twice np.quantile(arr, 0.50) (linear interpolation between the middle entries)
TwiceMedian(dist) ==
    LET n == SumCounts(dist)
    IN  ValueAt(dist, (n - 1) \div 2) + ValueAt(dist, n \div 2)

(***************************************************************************)
(* EngagementPredictor.predict_post_performance                            *)
(***************************************************************************)
\* raw_shift: how far the regressors' raw output for this post lies from the
\* target of the rows they were fitted on (a boosted ensemble can leave the
\* range of its training targets, below zero included)
Posts ==
    { [platform |-> "instagram", caption_length |-> 49, has_hash |-> TRUE, has_punct |-> TRUE,
       raw_shift |-> 0],
      [platform |-> "youtube", caption_length |-> 120, has_hash |-> FALSE, has_punct |-> FALSE,
       raw_shift |-> -20] }
NoPost == [platform |-> "", caption_length |-> 0, has_hash |-> FALSE, has_punct |-> FALSE,
           raw_shift |-> 0]

FallbackBaselines ==
    [instagram |-> [likes |-> 5000, comments |-> 150, views |-> 25000],
     youtube |-> [likes |-> 3000, comments |-> 200, views |-> 100000],
     facebook |-> [likes |-> 2000, comments |-> 100, views |-> 15000],
     twitter |-> [likes |-> 1500, comments |-> 80, views |-> 50000]]

Max(a, b) == IF a >= b THEN a ELSE b
Min(a, b) == IF a <= b THEN a ELSE b

\* round(x * 10^k) of the fraction x = num / den, ties to the even neighbour
RoundScaled(num, den, scale) ==
    LET n == IF num < 0 THEN -num ELSE num
        q == (n * scale) \div den
        r == (n * scale) % den
        up == 2 * r > den \/ (2 * r = den /\ q % 2 = 1)
        m == IF up THEN q + 1 ELSE q
    IN  IF num < 0 THEN -m ELSE m

\* the raw regressor output handed on as it is
ClampedInt_raw(raw) == raw

\* max(0, int(model.predict(X_scaled)[0]))
ClampedInt(raw) == Max(0, raw)

\* the boost without its cap
Boosted_uncapped(score) == score + 5

\* min(100, virality_score + 5)
Boosted(score) == Min(100, score + 5)

\* confidence that does not follow is_trained
Confidence_medium(is_trained) == "medium"

\* "high" if self.is_trained else "medium"
Confidence(is_trained) == IF is_trained THEN "high" ELSE "medium"

\* _fallback_prediction; the multiplier is kept in tenths
FallbackPrediction(post) ==
    LET base == IF post.platform \in DOMAIN FallbackBaselines
                THEN FallbackBaselines[post.platform]
                ELSE FallbackBaselines["instagram"]
        tenths == 10 + (IF post.caption_length > 100 THEN 2 ELSE 0)
                     + (IF post.has_hash THEN 1 ELSE 0)
                     + (IF post.has_punct THEN 1 ELSE 0)
        pl == (base.likes * tenths) \div 10
        pc == (base.comments * tenths) \div 10
        pv == (base.views * tenths) \div 10
        rate == IF pv > 0 THEN <<(pl + pc) * 100, pv>> ELSE <<5, 1>>
    IN  PredictionResult(
            [likes |-> pl, comments |-> pc, views |-> pv, rate |-> rate,
             virality |-> Min(100, (rate[1] * 10) \div rate[2]),
             confidence |-> "low", note |-> TRUE])

\* scaler.transform(X): the scaler must be fitted, on the columns of X
TransformRaises(scaler, cols) == ~scaler.fitted \/ scaler.cols # cols
\* model.predict(X_scaled): X_scaled is a bare array, only its width is checked
ModelPredictRaises(model, width) ==
    IsNone(model) \/ ~model.fitted \/ Len(model.cols) # width

\* the percentile-based virality score, lines 185-198
ViralityScore(engagement, total, rate) ==
    IF engagement.has /\ engagement.dist # <<>>
    THEN LET rank == (SearchSortedRight(engagement.dist, total) * 100)
                         \div SumCounts(engagement.dist)
             twice == TwiceMedian(engagement.dist)
             boost == (IF twice = 0 THEN 2 * total > 2 ELSE 2 * total > twice)
                      /\ rate[1] > 5 * rate[2]
         IN  IF boost THEN Boosted(rank) ELSE rank
    ELSE 50

PredictPostPerformance(inst, post) ==
    IF ~inst.is_trained THEN FallbackPrediction(post)
    ELSE
    LET X == AlignFeatureColumns(PostFeatureRow(post), inst.feature_names).columns
    IN  IF TransformRaises(inst.scaler, X) THEN Raised("ValueError")
        ELSE IF ModelPredictRaises(inst.model_likes, Len(X))
                \/ ModelPredictRaises(inst.model_comments, Len(X))
        THEN Raised("ValueError")
        ELSE IF TruthRaises(inst.model_views) THEN Raised("AttributeError")
        ELSE IF Truthy(inst.model_views) /\ ModelPredictRaises(inst.model_views, Len(X))
        THEN Raised("ValueError")
        ELSE
        LET pl == ClampedInt(inst.model_likes.out + post.raw_shift)
            pc == ClampedInt(inst.model_comments.out + post.raw_shift)
            pv == IF Truthy(inst.model_views)
                  THEN ClampedInt(inst.model_views.out + post.raw_shift)
                  ELSE pl * 5
            rate == IF pv > 0 THEN <<(pl + pc) * 100, pv>> ELSE <<5, 1>>
        IN  PredictionResult(
                [likes |-> pl, comments |-> pc, views |-> pv, rate |-> rate,
                 virality |-> ViralityScore(inst.engagement, pl + pc, rate),
                 confidence |-> Confidence(inst.is_trained),
                 note |-> FALSE])

(***************************************************************************)
(* AnomalyDetector.detect_anomalies                                        *)
(***************************************************************************)
\* columns the call reads with df[...]; a missing one raises KeyError
DetectReads == {"likes", "comments", "views"}
RuleBasedReads == {"likes", "comments"}

\* df[field].sum() and (df[field] ** 2).sum() over the groups of a frame
RECURSIVE GroupSum(_, _, _)
GroupSum(gs, field, power) ==
    IF gs = <<>> THEN 0
    ELSE Head(gs).count * (IF power = 2 THEN Head(gs)[field] * Head(gs)[field]
                           ELSE Head(gs)[field])
         + GroupSum(Tail(gs), field, power)

\* a band of two standard deviations
OutsideBand_narrow(x, n, sum, squares) ==
    LET spread == 4 * n * (n * squares - sum * sum)
        far(d) == d > 0 /\ d * d * (n - 1) > spread
    IN  IF n < 2 THEN "inside"
        ELSE IF far(n * x - sum) THEN "above"
        ELSE IF x < 0 \/ far(sum - n * x) THEN "below"
        ELSE "inside"

\* lines 396-405 and the comparisons of lines 422-435: where x lies against
\* [max(0, mean - 3 * std), mean + 3 * std], for the mean sum / n and the sample
\* standard deviation sqrt((n * squares - sum^2) / (n * (n - 1))), which is NaN
\* for a single row
OutsideBand(x, n, sum, squares) ==
    LET spread == 9 * n * (n * squares - sum * sum)
        far(d) == d > 0 /\ d * d * (n - 1) > spread
    IN  IF n < 2 THEN "inside"
        ELSE IF far(n * x - sum) THEN "above"
        ELSE IF x < 0 \/ far(sum - n * x) THEN "below"
        ELSE "inside"

\* _calc_deviation(value, baseline) for the baseline sum / n, in tenths of a
\* percent: round(((value - baseline) / baseline) * 100, 1)
CalcDeviation(value, n, sum) ==
    IF sum = 0 THEN 0 ELSE RoundScaled((n * value - sum) * 100, sum, 10)

\* a severity with a third level for small deviations
RuleSeverity_low(deviation_likes) ==
    IF (IF deviation_likes < 0 THEN -deviation_likes ELSE deviation_likes) > 2000
    THEN "high"
    ELSE IF (IF deviation_likes < 0 THEN -deviation_likes ELSE deviation_likes) > 500
    THEN "medium" ELSE "low"

\* 'high' if abs(deviation_likes) > 200 else 'medium'
RuleSeverity(deviation_likes) ==
    IF (IF deviation_likes < 0 THEN -deviation_likes ELSE deviation_likes) > 2000
    THEN "high" ELSE "medium"

\* anomalies[:k], for a list of groups of equal records
RECURSIVE FirstRows(_, _)
FirstRows(rows, k) ==
    IF rows = <<>> \/ k = 0 THEN <<>>
    ELSE IF Head(rows).count <= k
         THEN <<Head(rows)>> \o FirstRows(Tail(rows), k - Head(rows).count)
         ELSE <<[Head(rows) EXCEPT !.count = k]>>

\* the loop of lines 417-459: one record per flagged row; value is the key of
\* the final sort, the absolute likes deviation, negated for reverse=True
RuleAnomalies(df) ==
    LET gs == df.groups
        n == DfLen(df)
        sl == GroupSum(gs, "likes", 1)
        ql == GroupSum(gs, "likes", 2)
        sc == GroupSum(gs, "comments", 1)
        qc == GroupSum(gs, "comments", 2)
        likes_side(g) == OutsideBand(g.likes, n, sl, ql)
        comments_side(g) == OutsideBand(g.comments, n, sc, qc)
        anomaly_type(g) ==
            (IF likes_side(g) = "above" THEN <<"viral_spike">>
             ELSE IF likes_side(g) = "below" THEN <<"low_likes">> ELSE <<>>)
            \o (IF comments_side(g) = "above" THEN <<"high_engagement">>
                ELSE IF comments_side(g) = "below" THEN <<"low_engagement">> ELSE <<>>)
        record(g) ==
            LET deviation_likes == CalcDeviation(g.likes, n, sl)
            IN  [likes |-> g.likes, comments |-> g.comments, count |-> g.count,
                 type |-> anomaly_type(g),
                 severity |-> RuleSeverity(deviation_likes),
                 deviation_likes |-> deviation_likes,
                 deviation_comments |-> CalcDeviation(g.comments, n, sc),
                 alert_message |-> IF likes_side(g) = "above" THEN "viral"
                                   ELSE "underperforming",
                 value |-> IF deviation_likes < 0 THEN deviation_likes
                           ELSE -deviation_likes]
        flagged == SelectSeq(gs, LAMBDA g : anomaly_type(g) # <<>>)
    IN  [i \in DOMAIN flagged |-> record(flagged[i])]

\* _rule_based_detection(df): sorted(anomalies, key=..., reverse=True)[:10]
RuleBasedDetection(df) ==
    IF ~(RuleBasedReads \subseteq df.cols) THEN Raised("KeyError")
    ELSE [AnomalyList("rule_based") EXCEPT
             !.val = FirstRows(SortByValue(RuleAnomalies(df)), 10)]

DetectAnomalies(inst, df) ==
    IF ~inst.is_trained /\ ~inst.baseline_metrics.has THEN RuleBasedDetection(df)
    ELSE IF ~(DetectReads \subseteq df.cols) THEN Raised("KeyError")
    ELSE IF inst.is_trained
         THEN IF TransformRaises(inst.scaler, DetectorDetectColumns)
              THEN Raised("ValueError")
              ELSE IF ModelPredictRaises(inst.model, Len(DetectorDetectColumns))
              THEN Raised("ValueError")
              ELSE IF ~inst.baseline_metrics.has THEN Raised("KeyError")
              ELSE AnomalyList("isolation_forest")
         ELSE RuleBasedDetection(df)

(***************************************************************************)
(* Request threads                                                         *)
(***************************************************************************)
NoFrame == Frame(<<>>, {})

\* a thread that has run nothing since the process started
FreshThread ==
    [op |-> "idle", pc |-> "", call |-> "", df |-> NoFrame, post |-> NoPost,
     gen |-> 0, meta |-> NoMeta, todo |-> <<>>, after |-> "", obj |-> NoneObj,
     reg |-> EmptyRegistry, names |-> <<>>, snap |-> NewPredictor,
     dsnap |-> NewDetector, ret |-> NoRet]

Idle(t) == th[t].op = "idle"
At(t, op, pc) == th[t].op = op /\ th[t].pc = pc

\* the call returns (or raises) r; the thread keeps what it ran and what it got
Returned(t, r) ==
    [th EXCEPT ![t] = [FreshThread EXCEPT
        !.call = th[t].call, !.df = th[t].df, !.post = th[t].post, !.gen = th[t].gen,
        !.snap = th[t].snap, !.dsnap = th[t].dsnap, !.ret = r]]
\* a call that returns r at its first step
Answered(t, call, df, post, r) ==
    [th EXCEPT ![t] = [FreshThread EXCEPT
        !.call = call, !.df = df, !.post = post, !.ret = r]]
Goto(t, pc) == [th EXCEPT ![t].pc = pc]

Init ==
    /\ regDoc = [state |-> "absent", entries |-> EmptyRegistry]
    /\ files = [p \in Paths |-> NoFile]
    /\ namesDoc = NoNamesDoc
    /\ predictor = NewPredictor
    /\ detector = NewDetector
    /\ th = [t \in Threads |-> FreshThread]
    /\ trains = 0
    /\ reads = 0

(***************************************************************************)
(* EngagementPredictor.train, one action per step another thread can see   *)
(***************************************************************************)
\* lines 46-50: the dependency check and the sample gate
TrainPredictorCall(t, df) ==
    /\ Idle(t)
    /\ IF ~SKLEARN_AVAILABLE
       THEN /\ th' = Answered(t, "train_predictor", df, NoPost,
                                 ErrorResult("scikit-learn not installed"))
            /\ UNCHANGED trains
       ELSE IF DfLen(df) < MIN_TRAIN_SAMPLES_PREDICTOR
       THEN /\ th' = Answered(t, "train_predictor", df, NoPost,
                                 ErrorResult("not_enough_data"))
            /\ UNCHANGED trains
       ELSE /\ trains < MaxTrains
            /\ trains' = trains + 1
            /\ th' = [th EXCEPT ![t] = [FreshThread EXCEPT
                        !.op = "train_predictor", !.call = "train_predictor",
                        !.pc = "features", !.df = df, !.gen = trains + 1]]
    /\ UNCHANGED <<store, predictor, detector, reads>>

\* lines 53-56: X = extract_features(df); self.feature_names = X.columns.tolist()
PTrainFeatures(t) ==
    /\ At(t, "train_predictor", "features")
    /\ predictor' = [predictor EXCEPT !.feature_names = FeatureColumns(th[t].df)]
    /\ th' = Goto(t, "targets")
    /\ UNCHANGED <<store, detector, trains, reads>>

\* lines 59-71: df['likes'], df['comments'], df['views'], the zero-target filter
PTrainTargets(t) ==
    /\ At(t, "train_predictor", "targets")
    /\ th' = IF ~(MetricCols \subseteq th[t].df.cols) THEN Returned(t, Raised("KeyError"))
             ELSE IF ValidLen(th[t].df) < MIN_VALID_ROWS
             THEN Returned(t, ErrorResult("not_enough_valid_data"))
             ELSE Goto(t, "scale")
    /\ UNCHANGED <<store, predictor, detector, trains, reads>>

\* line 74: self.scaler.fit_transform(X) refits the scaler object in place
PTrainScale(t) ==
    /\ At(t, "train_predictor", "scale")
    /\ predictor' = [predictor EXCEPT
                       !.scaler = FitObj(@, th[t].gen, FeatureColumns(th[t].df), 0)]
    /\ th' = Goto(t, "new_models")
    /\ UNCHANGED <<store, detector, trains, reads>>

\* lines 86-87: two new, unfitted regressors
PTrainNewModels(t) ==
    /\ At(t, "train_predictor", "new_models")
    /\ predictor' = [predictor EXCEPT !.model_likes = NewRegressor,
                                      !.model_comments = NewRegressor]
    /\ th' = Goto(t, "fit_likes")
    /\ UNCHANGED <<store, detector, trains, reads>>

\* line 89: self.model_likes.fit(X_train, y_likes_train)
PTrainFitLikes(t) ==
    /\ At(t, "train_predictor", "fit_likes")
    /\ predictor' = [predictor EXCEPT
                       !.model_likes = FitObj(@, th[t].gen, FeatureColumns(th[t].df),
                                              FittedValue(th[t].df, "likes"))]
    /\ th' = Goto(t, "fit_comments")
    /\ UNCHANGED <<store, detector, trains, reads>>

\* line 90: self.model_comments.fit(X_train, y_comments_train)
PTrainFitComments(t) ==
    /\ At(t, "train_predictor", "fit_comments")
    /\ predictor' = [predictor EXCEPT
                       !.model_comments = FitObj(@, th[t].gen, FeatureColumns(th[t].df),
                                              FittedValue(th[t].df, "comments"))]
    /\ th' = Goto(t, "views_model")
    /\ UNCHANGED <<store, detector, trains, reads>>

\* lines 93-95: a new views regressor only if the valid rows have views
PTrainViewsModel(t) ==
    /\ At(t, "train_predictor", "views_model")
    /\ IF HasViewsData(th[t].df)
       THEN /\ predictor' = [predictor EXCEPT !.model_views = NewRegressor]
            /\ th' = Goto(t, "fit_views")
       ELSE /\ UNCHANGED predictor
            /\ th' = Goto(t, "trained")
    /\ UNCHANGED <<store, detector, trains, reads>>

\* line 96: self.model_views.fit(...)
PTrainFitViews(t) ==
    /\ At(t, "train_predictor", "fit_views")
    /\ predictor' = [predictor EXCEPT
                       !.model_views = FitObj(@, th[t].gen, FeatureColumns(th[t].df),
                                              FittedValue(th[t].df, "views"))]
    /\ th' = Goto(t, "trained")
    /\ UNCHANGED <<store, detector, trains, reads>>

\* line 98: self.is_trained = True
PTrainTrained(t) ==
    /\ At(t, "train_predictor", "trained")
    /\ predictor' = [predictor EXCEPT !.is_trained = TRUE]
    /\ th' = Goto(t, "engagement")
    /\ UNCHANGED <<store, detector, trains, reads>>

\* a score that changes from one call to the next
R2_unseeded(model) == [cols |-> model.cols, out |-> model.out + model.gen]

\* self.model.score(X_val, y_val): the split and the ensemble are seeded
\* (random_state=42), so the score is a function of the fitted ensemble
R2(model) == [cols |-> model.cols, out |-> model.out]

\* 100 * np.quantile(arr, p / 100), linear interpolation
Quantile100(dist, p) ==
    LET n == SumCounts(dist)
        h == p * (n - 1)
        lo == h \div 100
        a == ValueAt(dist, lo)
        b == IF lo + 1 < n THEN ValueAt(dist, lo + 1) ELSE a
    IN  a * 100 + (h % 100) * (b - a)

\* lines 110-116
QuantileTable(dist) ==
    [q10 |-> Quantile100(dist, 10), q25 |-> Quantile100(dist, 25),
     q50 |-> Quantile100(dist, 50), q75 |-> Quantile100(dist, 75),
     q90 |-> Quantile100(dist, 90)]

\* the metadata blob of lines 121-130
PredictorMetadata(g, df, feature_names, model_likes, model_comments) ==
    [gen |-> g, samples_trained |-> ValidLen(df), features_used |-> Len(feature_names),
     val_r2_likes |-> R2(model_likes), val_r2_comments |-> R2(model_comments),
     quantiles |-> QuantileTable(EngagementSorted(df))]

\* lines 100-130: the scores, the engagement distribution, then the metadata
PTrainEngagement(t) ==
    /\ At(t, "train_predictor", "engagement")
    /\ predictor' = [predictor EXCEPT
                       !.engagement = [has |-> TRUE, gen |-> th[t].gen,
                                       dist |-> EngagementSorted(th[t].df)]]
    /\ th' = [th EXCEPT ![t].pc = "save",
                        ![t].meta = PredictorMetadata(th[t].gen, th[t].df,
                                                      predictor.feature_names,
                                                      predictor.model_likes,
                                                      predictor.model_comments),
                        ![t].todo = PredictorRequired,
                        ![t].after = "save_views"]
    /\ UNCHANGED <<store, detector, trains, reads>>

(***************************************************************************)
(* save_model(name, version, model, metadata), called by both train        *)
(* methods; th[t].todo lists the artifacts the caller still has to save    *)
(***************************************************************************)
Training(t) == th[t].op \in {"train_predictor", "train_detector"}

\* the object the caller passes for the artifact: the singleton's field as it is now
ArtifactObject(name) ==
    CASE name = "predictor_scaler" -> predictor.scaler
      [] name = "predictor_likes" -> predictor.model_likes
      [] name = "predictor_comments" -> predictor.model_comments
      [] name = "predictor_views" -> predictor.model_views
      [] name = "anomaly_scaler" -> detector.scaler
      [] name = "anomaly_model" -> detector.model

\* the version the caller passes
VersionPassed(op) ==
    IF op = "train_predictor" THEN PREDICTOR_VERSION ELSE ANOMALY_VERSION

SavePath(t) == model_filepath(Head(th[t].todo), VersionPassed(th[t].op))

\* line 59, first half: joblib.dump opens the binary for writing
SaveDumpOpen(t) ==
    /\ Training(t) /\ th[t].pc = "save"
    /\ files' = DumpOpen(files, SavePath(t))
    /\ th' = [th EXCEPT ![t].pc = "dumping", ![t].obj = ArtifactObject(Head(th[t].todo))]
    /\ UNCHANGED <<regDoc, namesDoc, predictor, detector, trains, reads>>

\* line 59, second half: the pickle is written out
SaveDumpDone(t) ==
    /\ Training(t) /\ th[t].pc = "dumping"
    /\ files' = DumpDone(files, SavePath(t), th[t].obj)
    /\ th' = Goto(t, "dumped")
    /\ UNCHANGED <<regDoc, namesDoc, predictor, detector, trains, reads>>

\* line 60: reg = load_registry()
SaveLoadRegistry(t) ==
    /\ Training(t) /\ th[t].pc = "dumped"
    /\ th' = [th EXCEPT ![t].pc = "loaded", ![t].reg = load_registry(regDoc)]
    /\ UNCHANGED <<store, predictor, detector, trains, reads>>

\* lines 61-65, save_registry line 43: the document is opened for writing
SaveRegistryOpen(t) ==
    /\ Training(t) /\ th[t].pc = "loaded"
    /\ regDoc' = RegistryOpen(regDoc)
    /\ th' = [th EXCEPT ![t].pc = "opened",
                        ![t].reg = [@ EXCEPT ![Head(th[t].todo)] =
                                      RegistryEntry(VersionPassed(th[t].op), th[t].meta)]]
    /\ UNCHANGED <<files, namesDoc, predictor, detector, trains, reads>>

\* save_registry line 44: json.dump writes the document; save_model returns True
SaveRegistryWrite(t) ==
    /\ Training(t) /\ th[t].pc = "opened"
    /\ regDoc' = RegistryWritten(th[t].reg)
    /\ th' = [th EXCEPT ![t].todo = Tail(@),
                        ![t].pc = IF Tail(th[t].todo) = <<>> THEN th[t].after ELSE "save"]
    /\ UNCHANGED <<files, namesDoc, predictor, detector, trains, reads>>

\* save_model as another thread sees it: the binary is written (line 59) and the
\* registry read (line 60) ...
SaveModelDump(t) ==
    /\ Training(t) /\ th[t].pc = "save"
    /\ files' = DumpDone(DumpOpen(files, SavePath(t)), SavePath(t),
                         ArtifactObject(Head(th[t].todo)))
    /\ th' = [th EXCEPT ![t].pc = "loaded", ![t].reg = load_registry(regDoc)]
    /\ UNCHANGED <<regDoc, namesDoc, predictor, detector, trains, reads>>

\* ... and then the registry is written back with the new entry (lines 61-66)
SaveModelRegister(t) ==
    /\ Training(t) /\ th[t].pc = "loaded"
    /\ regDoc' = RegistryWritten([th[t].reg EXCEPT ![Head(th[t].todo)] =
                                    RegistryEntry(VersionPassed(th[t].op), th[t].meta)])
    /\ th' = [th EXCEPT ![t].todo = Tail(@),
                        ![t].pc = IF Tail(th[t].todo) = <<>> THEN th[t].after ELSE "save"]
    /\ UNCHANGED <<files, namesDoc, predictor, detector, trains, reads>>

(***************************************************************************)
(* EngagementPredictor.train, lines 134-146                                *)
(***************************************************************************)
\* line 134: if self.model_views: save it too
PTrainSaveViews(t) ==
    /\ At(t, "train_predictor", "save_views")
    /\ th' = IF TruthRaises(predictor.model_views) THEN Returned(t, Raised("AttributeError"))
             ELSE IF Truthy(predictor.model_views)
             THEN [th EXCEPT ![t].pc = "save", ![t].todo = <<"predictor_views">>,
                             ![t].after = "save_names"]
             ELSE Goto(t, "save_names")
    /\ UNCHANGED <<store, predictor, detector, trains, reads>>

\* line 138, save_feature_names line 74: the names document is opened for writing
PTrainSaveNamesOpen(t) ==
    /\ At(t, "train_predictor", "save_names")
    /\ namesDoc' = PartialNamesDoc
    /\ th' = [th EXCEPT ![t].pc = "names_opened", ![t].names = predictor.feature_names]
    /\ UNCHANGED <<regDoc, files, predictor, detector, trains, reads>>

\* save_feature_names line 75, then lines 142-146: return the success result
PTrainSaveNamesWrite(t) ==
    /\ At(t, "train_predictor", "names_opened")
    /\ namesDoc' = WholeNamesDoc(th[t].names)
    /\ th' = Returned(t, SuccessResult(PREDICTOR_VERSION, th[t].meta))
    /\ UNCHANGED <<regDoc, files, predictor, detector, trains, reads>>

\* lines 136-146 as another thread sees them
PTrainSaveNames(t) ==
    /\ At(t, "train_predictor", "save_names")
    /\ namesDoc' = WholeNamesDoc(predictor.feature_names)
    /\ th' = Returned(t, SuccessResult(PREDICTOR_VERSION, th[t].meta))
    /\ UNCHANGED <<regDoc, files, predictor, detector, trains, reads>>

(***************************************************************************)
(* AnomalyDetector.train                                                   *)
(***************************************************************************)
\* lines 151-155
TrainDetectorCall(t, df) ==
    /\ Idle(t)
    /\ IF ~SKLEARN_AVAILABLE
       THEN /\ th' = Answered(t, "train_detector", df, NoPost,
                                 ErrorResult("scikit-learn not installed"))
            /\ UNCHANGED trains
       ELSE IF DfLen(df) < MIN_TRAIN_SAMPLES_DETECTOR
       THEN /\ th' = Answered(t, "train_detector", df, NoPost,
                                 ErrorResult("not_enough_data"))
            /\ UNCHANGED trains
       ELSE /\ trains < MaxTrains
            /\ trains' = trains + 1
            /\ th' = [th EXCEPT ![t] = [FreshThread EXCEPT
                        !.op = "train_detector", !.call = "train_detector",
                        !.pc = "baseline", !.df = df, !.gen = trains + 1]]
    /\ UNCHANGED <<store, predictor, detector, reads>>

\* line 158, calculate_baseline: df['likes'] and df['comments'] are read before
\* self.baseline_metrics is assigned; views is guarded there
DTrainBaseline(t) ==
    /\ At(t, "train_detector", "baseline")
    /\ IF ~({"likes", "comments"} \subseteq th[t].df.cols)
       THEN /\ th' = Returned(t, Raised("KeyError"))
            /\ UNCHANGED detector
       ELSE /\ detector' = [detector EXCEPT
                              !.baseline_metrics = [has |-> TRUE, gen |-> th[t].gen]]
            /\ th' = Goto(t, "d_features")
    /\ UNCHANGED <<store, predictor, trains, reads>>

\* lines 161-166: the four-column frame reads df['views'] unguarded
DTrainFeatures(t) ==
    /\ At(t, "train_detector", "d_features")
    /\ th' = IF ~(MetricCols \subseteq th[t].df.cols) THEN Returned(t, Raised("KeyError"))
             ELSE Goto(t, "d_scale")
    /\ UNCHANGED <<store, predictor, detector, trains, reads>>

\* line 169: self.scaler.fit_transform(features)
DTrainScale(t) ==
    /\ At(t, "train_detector", "d_scale")
    /\ detector' = [detector EXCEPT
                      !.scaler = FitObj(@, th[t].gen, DetectorTrainColumns, 0)]
    /\ th' = Goto(t, "d_new_model")
    /\ UNCHANGED <<store, predictor, trains, reads>>

\* lines 172-176: self.model = IsolationForest(...)
DTrainNewModel(t) ==
    /\ At(t, "train_detector", "d_new_model")
    /\ detector' = [detector EXCEPT !.model = NewForest]
    /\ th' = Goto(t, "d_fit")
    /\ UNCHANGED <<store, predictor, trains, reads>>

\* line 177: self.model.fit(X_scaled)
DTrainFit(t) ==
    /\ At(t, "train_detector", "d_fit")
    /\ detector' = [detector EXCEPT
                      !.model = FitObj(@, th[t].gen, DetectorTrainColumns, 0)]
    /\ th' = Goto(t, "d_trained")
    /\ UNCHANGED <<store, predictor, trains, reads>>

\* the metadata blob of lines 180-185
DetectorMetadata(g, df) ==
    [NoMeta EXCEPT !.gen = g, !.samples_trained = DfLen(df)]

\* lines 178-185: self.is_trained = True, then the metadata
DTrainTrained(t) ==
    /\ At(t, "train_detector", "d_trained")
    /\ detector' = [detector EXCEPT !.is_trained = TRUE]
    /\ th' = [th EXCEPT ![t].pc = "save",
                        ![t].meta = DetectorMetadata(th[t].gen, th[t].df),
                        ![t].todo = DetectorArtifacts,
                        ![t].after = "d_return"]
    /\ UNCHANGED <<store, predictor, trains, reads>>

\* lines 189-193
DTrainReturn(t) ==
    /\ At(t, "train_detector", "d_return")
    /\ th' = Returned(t, SuccessResult(ANOMALY_VERSION, th[t].meta))
    /\ UNCHANGED <<store, predictor, detector, trains, reads>>

(***************************************************************************)
(* predict_engagement: the fields of the singleton are read one by one,    *)
(* each into the thread's snapshot, at the line that uses it               *)
(***************************************************************************)
\* line 158: if not self.is_trained: return self._fallback_prediction(post_data)
PredictCall(t, post) ==
    /\ Idle(t)
    /\ reads < MaxReads
    /\ reads' = reads + 1
    /\ th' = IF ~predictor.is_trained
             THEN Answered(t, "predict_engagement", NoFrame, post,
                           PredictPostPerformance(predictor, post))
             ELSE [th EXCEPT ![t] = [FreshThread EXCEPT
                     !.op = "predict_engagement", !.call = "predict_engagement",
                     !.pc = "align", !.post = post,
                     !.snap = [NewPredictor EXCEPT !.is_trained = TRUE]]]
    /\ UNCHANGED <<store, predictor, detector, trains>>

\* line 171: align_feature_columns(X_raw, self.feature_names)
PredictAlign(t) ==
    /\ At(t, "predict_engagement", "align")
    /\ th' = [th EXCEPT ![t].pc = "transform",
                        ![t].snap.feature_names = predictor.feature_names]
    /\ UNCHANGED <<store, predictor, detector, trains, reads>>

\* line 172: self.scaler.transform(X)
PredictTransform(t) ==
    /\ At(t, "predict_engagement", "transform")
    /\ th' = [th EXCEPT ![t].pc = "models", ![t].snap.scaler = predictor.scaler]
    /\ UNCHANGED <<store, predictor, detector, trains, reads>>

\* lines 174-176: self.model_likes, self.model_comments, self.model_views
PredictModels(t) ==
    /\ At(t, "predict_engagement", "models")
    /\ th' = [th EXCEPT ![t].pc = "score",
                        ![t].snap.model_likes = predictor.model_likes,
                        ![t].snap.model_comments = predictor.model_comments,
                        ![t].snap.model_views = predictor.model_views]
    /\ UNCHANGED <<store, predictor, detector, trains, reads>>

\* lines 178-208: the engagement rate, the virality score, the result
PredictScore(t) ==
    /\ At(t, "predict_engagement", "score")
    /\ LET snap == [th[t].snap EXCEPT !.engagement = predictor.engagement]
       IN  th' = [Returned(t, PredictPostPerformance(snap, th[t].post)) EXCEPT
                    ![t].snap = snap]
    /\ UNCHANGED <<store, predictor, detector, trains, reads>>

(***************************************************************************)
(* find_anomalies                                                          *)
(***************************************************************************)
\* lines 210-212: untrained and no cached baseline: the rule-based path
DetectCall(t, df) ==
    /\ Idle(t)
    /\ reads < MaxReads
    /\ reads' = reads + 1
    /\ th' = IF ~detector.is_trained /\ ~detector.baseline_metrics.has
             THEN Answered(t, "find_anomalies", df, NoPost,
                           DetectAnomalies(detector, df))
             ELSE [th EXCEPT ![t] = [FreshThread EXCEPT
                     !.op = "find_anomalies", !.call = "find_anomalies",
                     !.pc = "d_read", !.df = df,
                     !.dsnap = [NewDetector EXCEPT
                                  !.is_trained = detector.is_trained,
                                  !.baseline_metrics = detector.baseline_metrics]]]
    /\ UNCHANGED <<store, predictor, detector, trains>>

\* lines 237-241: if self.is_trained: self.scaler.transform, self.model.predict
DetectRead(t) ==
    /\ At(t, "find_anomalies", "d_read")
    /\ th' = [th EXCEPT ![t].pc = "d_emit",
                        ![t].dsnap.is_trained = detector.is_trained,
                        ![t].dsnap.scaler = detector.scaler,
                        ![t].dsnap.model = detector.model]
    /\ UNCHANGED <<store, predictor, detector, trains, reads>>

\* lines 256-281: the anomaly records, built against self.baseline_metrics
DetectEmit(t) ==
    /\ At(t, "find_anomalies", "d_emit")
    /\ LET dsnap == [th[t].dsnap EXCEPT
                       !.baseline_metrics =
                           IF detector.baseline_metrics.has
                           THEN detector.baseline_metrics ELSE @]
       IN  th' = [Returned(t, DetectAnomalies(dsnap, th[t].df)) EXCEPT ![t].dsnap = dsnap]
    /\ UNCHANGED <<store, predictor, detector, trains, reads>>

(***************************************************************************)
(* The process stops (at any point of any call) and starts again: the      *)
(* module-level singletons are rebuilt from the store                      *)
(***************************************************************************)
Restart ==
    /\ th' = [t \in Threads |-> FreshThread]
    /\ predictor' = LoadOrCreatePredictor(regDoc, files, namesDoc)
    /\ detector' = LoadOrCreateDetector(regDoc, files)
    /\ UNCHANGED <<store, trains, reads>>

(***************************************************************************)
(* Post histories handed to get_optimal_time, analyze_trends and           *)
(* check_engagement_drop: a list of rows in the order of the frame.        *)
(* value orders the upload dates; nat marks a date that                    *)
(* pd.to_datetime(errors='coerce') turns into NaT; hour and dow are the    *)
(* hour of the day and the weekday (0 = Monday) of a parseable date.       *)
(***************************************************************************)
\* n rows listed latest first; the k latest rows carry b likes and the others
\* a; every row carries c comments; the first nats rows have no parseable date
History(n, a, b, c, k, nats) ==
    [i \in 1..n |->
        LET v == n + 1 - i
        IN  [value |-> v, nat |-> i <= nats, count |-> 1,
             hour |-> 9 + 3 * (v % 4), dow |-> v % 7,
             likes |-> IF v > n - k THEN b ELSE a, comments |-> c]]

Histories ==
    { History(n, a, b, c, k, nats) :
        n \in {9, 10, 14, 51}, a \in {0, 10}, b \in {2, 6, 7, 8, 9, 11, 12, 13},
        c \in {0, 2}, k \in {5, 7}, nats \in {0, 1} }
    \cup { History(10, 10, 7, 2, 5, 10) }

Platforms == {"instagram", "facebook", "twitter", "youtube", "tiktok"}

\* a result that is a report: {"best_hours": ...}, {"overall_trend": ...}, ...
Report(kind, val) == [NoRet EXCEPT !.kind = kind, !.val = val]

(***************************************************************************)
(* EngagementPredictor.predict_optimal_time                                *)
(***************************************************************************)
day_names ==
    <<"Monday", "Tuesday", "Wednesday", "Thursday", "Friday", "Saturday", "Sunday">>

\* _default_optimal_times(platform); an hour h stands for the text "h:00"
DefaultOptimalTimes(platform) ==
    LET defaults ==
            [instagram |-> [best_hours |-> <<9, 12, 19>>,
                            best_days |-> <<"Wednesday", "Friday", "Sunday">>,
                            recommendation |-> <<"Wednesday", 12>>],
             facebook |-> [best_hours |-> <<13, 15, 20>>,
                           best_days |-> <<"Thursday", "Friday", "Saturday">>,
                           recommendation |-> <<"Thursday", 15>>],
             twitter |-> [best_hours |-> <<8, 12, 17>>,
                          best_days |-> <<"Tuesday", "Wednesday", "Thursday">>,
                          recommendation |-> <<"Wednesday", 12>>],
             youtube |-> [best_hours |-> <<14, 16, 20>>,
                          best_days |-> <<"Friday", "Saturday", "Sunday">>,
                          recommendation |-> <<"Friday", 16>>]]
        result == IF platform \in DOMAIN defaults THEN defaults[platform]
                  ELSE defaults["instagram"]
    IN  Report("optimal_time",
               [best_hours |-> result.best_hours, best_days |-> result.best_days,
                recommendation |-> result.recommendation,
                confidence |-> "low", note |-> TRUE])

\* the sum and the number of the rows of one bucket: the mean of
\* likes + comments * 3 over the group is sum / count
RECURSIVE BucketStat(_, _, _)
BucketStat(rows, field, key) ==
    IF rows = <<>> THEN <<0, 0>>
    ELSE LET rest == BucketStat(Tail(rows), field, key)
             row == Head(rows)
         IN  IF row[field] = key
             THEN <<rest[1] + row.likes + row.comments * 3, rest[2] + 1>>
             ELSE rest

\* groupby(field).apply(mean).sort_values(ascending=False).index: the keys by
\* descending mean; keys of equal mean stay in ascending order
RECURSIVE RankedKeys(_, _, _)
RankedKeys(rows, field, keys) ==
    IF keys = {} THEN <<>>
    ELSE LET stat(k) == BucketStat(rows, field, k)
             above(k, j) == stat(k)[1] * stat(j)[2] > stat(j)[1] * stat(k)[2]
             level(k, j) == stat(k)[1] * stat(j)[2] = stat(j)[1] * stat(k)[2]
             best == CHOOSE k \in keys :
                        \A j \in keys \ {k} : above(k, j) \/ (level(k, j) /\ k < j)
         IN  <<best>> \o RankedKeys(rows, field, keys \ {best})

\* .head(3)
Head3(s) == SubSeq(s, 1, IF Len(s) < 3 THEN Len(s) ELSE 3)

\* predict_optimal_time(platform, historical_data).  A NaT among the dates
\* makes hour and day_of_week float64 columns, so the best day is 2.0, not 2,
\* and day_names[2.0] raises; with no parseable date at all the groups are
\* empty and best_days[0] raises
PredictOptimalTime(platform, historical_data) ==
    IF Len(historical_data) < 10 THEN DefaultOptimalTimes(platform)
    ELSE IF \A i \in DOMAIN historical_data : historical_data[i].nat
    THEN Raised("IndexError")
    ELSE IF \E i \in DOMAIN historical_data : historical_data[i].nat
    THEN Raised("TypeError")
    ELSE
    LET best_hours == Head3(RankedKeys(historical_data, "hour",
                         {historical_data[i].hour : i \in DOMAIN historical_data}))
        best_days == Head3(RankedKeys(historical_data, "dow",
                         {historical_data[i].dow : i \in DOMAIN historical_data}))
    IN  Report("optimal_time",
               [best_hours |-> best_hours,
                best_days |-> [i \in DOMAIN best_days |-> day_names[best_days[i] + 1]],
                recommendation |-> <<day_names[best_days[1] + 1], best_hours[1]>>,
                confidence |-> IF Len(historical_data) > 50 THEN "high" ELSE "medium",
                note |-> FALSE])

\* get_optimal_time(platform, historical_data)
GetOptimalTime(t, platform, historical_data) ==
    /\ Idle(t)
    /\ th' = Answered(t, "get_optimal_time", historical_data,
                      [NoPost EXCEPT !.platform = platform],
                      PredictOptimalTime(platform, historical_data))
    /\ UNCHANGED <<store, predictor, detector, trains, reads>>

(***************************************************************************)
(* AnomalyDetector.detect_trends and detect_engagement_drop.  A mean, a    *)
(* percent change and every other float is kept as the exact fraction      *)
(* <<numerator, denominator>> with a positive denominator.                 *)
(***************************************************************************)
\* df.sort_values('upload_date'): ascending, the rows without a date last
SortValues(df) ==
    SortByValue(SelectSeq(df, LAMBDA r : ~r.nat)) \o SelectSeq(df, LAMBDA r : r.nat)

\* df.head(n) and df.tail(n)
DfHead(df, n) == SubSeq(df, 1, Min(n, Len(df)))
DfTail(df, n) == SubSeq(df, Max(1, Len(df) - n + 1), Len(df))

\* df[field].sum()
RECURSIVE SumField(_, _)
SumField(df, field) ==
    IF df = <<>> THEN 0 ELSE Head(df)[field] * Head(df).count + SumField(Tail(df), field)

\* (recent - older) / older * 100 if older > 0 else 0, for two means over the
\* same number of rows
PercentChange(recent_sum, older_sum) ==
    IF older_sum > 0 THEN <<(recent_sum - older_sum) * 100, older_sum>> ELSE <<0, 1>>

\* a trend label that calls every rise strong
TrendLabel_coarse(change) ==
    IF change[1] > 10 * change[2] THEN "strongly_increasing"
    ELSE IF change[1] < -20 * change[2] THEN "strongly_decreasing"
    ELSE IF change[1] < -10 * change[2] THEN "decreasing"
    ELSE "stable"

\* lines 315-323
TrendLabel(change) ==
    IF change[1] > 20 * change[2] THEN "strongly_increasing"
    ELSE IF change[1] > 10 * change[2] THEN "increasing"
    ELSE IF change[1] < -20 * change[2] THEN "strongly_decreasing"
    ELSE IF change[1] < -10 * change[2] THEN "decreasing"
    ELSE "stable"

\* detect_trends(df, window_days); the alert is the template of the trend with
\* the change to one decimal, the recommendation is the text of the trend
DetectTrends(df, window_days) ==
    LET sorted == SortValues(df)
        recent == DfTail(sorted, window_days)
        older == DfHead(sorted, window_days)
        likes_change == PercentChange(SumField(recent, "likes"), SumField(older, "likes"))
        comments_change ==
            PercentChange(SumField(recent, "comments"), SumField(older, "comments"))
        trend == TrendLabel(likes_change)
    IN  Report("trends",
               [overall_trend |-> trend,
                likes_change_percent |-> RoundScaled(likes_change[1], likes_change[2], 100),
                comments_change_percent |->
                    RoundScaled(comments_change[1], comments_change[2], 100),
                recent_avg_likes |-> SumField(recent, "likes") \div Len(recent),
                recent_avg_comments |-> SumField(recent, "comments") \div Len(recent),
                alert |-> <<trend, IF trend = "stable" THEN 0
                                   ELSE RoundScaled(likes_change[1], likes_change[2], 10)>>,
                recommendation |-> trend])

\* analyze_trends(df): the default window of 7
AnalyzeTrends(t, df) ==
    /\ Idle(t)
    /\ th' = Answered(t, "analyze_trends", df, NoPost, DetectTrends(df, 7))
    /\ UNCHANGED <<store, predictor, detector, trains, reads>>

\* a severity that starts at the "high" threshold only
DropSeverity_late(change) ==
    IF change[1] < -50 * change[2] THEN "high" ELSE "low"

\* line 375
DropSeverity(change) ==
    IF change[1] < -50 * change[2] THEN "high"
    ELSE IF change[1] < -30 * change[2] THEN "medium"
    ELSE "low"

\* _suggest_drop_causes()
SuggestDropCauses ==
    <<"algorithm", "quality", "timing", "competition", "fatigue", "technical", "seasonal">>

\* detect_engagement_drop(df, threshold), the threshold in percent
DetectEngagementDrop(df, threshold) ==
    LET sorted == SortValues(df)
        recent_posts == DfTail(sorted, 5)
        previous_posts == DfHead(DfTail(sorted, 10), 5)
        recent == SumField(recent_posts, "likes") + SumField(recent_posts, "comments")
        previous == SumField(previous_posts, "likes") + SumField(previous_posts, "comments")
        change == <<(recent - previous) * 100, previous>>
        below == change[1] < -threshold * change[2]
    IN  IF Len(sorted) < 10 THEN Report("drop", [status |-> "insufficient_data"])
        ELSE IF previous = 0 THEN Report("drop", [status |-> "no_baseline"])
        ELSE Report("drop",
                    [status |-> "",
                     drop_detected |-> below,
                     change_percent |-> RoundScaled(change[1], change[2], 100),
                     recent_avg_engagement |-> recent \div 5,
                     previous_avg_engagement |-> previous \div 5,
                     severity |-> DropSeverity(change),
                     alert_message |-> IF below THEN "dropped" ELSE "stable",
                     possible_causes |-> IF below THEN SuggestDropCauses ELSE <<>>])

\* check_engagement_drop(df): the default threshold of 0.3
CheckEngagementDrop(t, df) ==
    /\ Idle(t)
    /\ th' = Answered(t, "check_engagement_drop", df, NoPost, DetectEngagementDrop(df, 30))
    /\ UNCHANGED <<store, predictor, detector, trains, reads>>

(***************************************************************************)
(* The learned-model path of detect_anomalies, for one flagged row:        *)
(* _classify_anomaly_type (line 262) and _generate_alert_message (275)     *)
(***************************************************************************)
\* calculate_baseline(df): the means the classification reads, as fractions
CalculateBaseline(df) ==
    [avg_likes |-> <<GroupSum(df.groups, "likes", 1), DfLen(df)>>,
     avg_comments |-> <<GroupSum(df.groups, "comments", 1), DfLen(df)>>]

\* rows of a batch as df.iloc[idx] hands them on; caption is a text, or NaN
\* where the post has none
NoCaption == "NaN"
FlaggedRows ==
    { [likes |-> l, comments |-> c, views |-> v, caption |-> cap] :
        l \in {0, 1, 2, 5, 11}, c \in {1, 7}, v \in {0, 600, 2000},
        cap \in {"Sneakers drop!", NoCaption} }

\* _classify_anomaly_type(row, features)
ClassifyAnomalyType(row, baseline_metrics) ==
    LET avg_likes == baseline_metrics.avg_likes
        avg_comments == baseline_metrics.avg_comments
    IN  IF row.likes * avg_likes[2] > avg_likes[1] * 2 THEN "viral_spike"
        ELSE IF row.likes * avg_likes[2] * 10 < avg_likes[1] * 3 THEN "low_performance"
        ELSE IF row.comments * avg_comments[2] > avg_comments[1] * 3 THEN "controversial"
        ELSE IF row.views > 0 /\ (row.likes + row.comments) * 100 < row.views
        THEN "low_engagement"
        ELSE "unusual_pattern"

\* _generate_alert_message(row, features): the dictionary of the five texts is
\* built before the type is looked up, and the first text slices
\* row.get('caption', ''), which raises TypeError for a caption that is NaN
GenerateAlertMessage(row, baseline_metrics) ==
    IF row.caption = NoCaption THEN Raised("TypeError")
    ELSE Report("alert", [template |-> ClassifyAnomalyType(row, baseline_metrics)])

\* lines 257-276 for the flagged row: the record, or the exception that ends
\* detect_anomalies
AnomalyRecord(row, baseline_metrics) ==
    LET alert_message == GenerateAlertMessage(row, baseline_metrics)
    IN  IF alert_message.kind = "raise" THEN alert_message
        ELSE Report("anomaly",
                    [type |-> ClassifyAnomalyType(row, baseline_metrics),
                     alert_message |-> alert_message.val.template])

\* the record of one flagged row against the baselines cached from df
ClassifyFlagged(t, row, df) ==
    /\ Idle(t)
    /\ th' = Answered(t, "classify", df, row, AnomalyRecord(row, CalculateBaseline(df)))
    /\ UNCHANGED <<store, predictor, detector, trains, reads>>

(***************************************************************************)
(* Schema alignment of a post's feature row, predictor.py:168-170          *)
(***************************************************************************)
\* reference column lists: the schemas train captures from its batches
\* (self.feature_names = list(X.columns), predictor.py:56), the empty list, a
\* list in another order with a column no post has, and a list that shares
\* no column with a feature row
ReferenceLists ==
    {FeatureColumns(df) : df \in PredictorBatches}
        \cup {<<>>, <<"avg_engagement_rate", "platform_twitter", "hour_of_day">>,
              <<"likes", "comments", "views", "engagement_rate">>}

\* X = align_feature_columns(X_raw, reference_columns) for the row of a post
AlignPostFeatures(t, post, reference_columns) ==
    /\ Idle(t)
    /\ th' = Answered(t, "align_feature_columns", NoFrame, post,
                      Report("aligned",
                             [current |-> PostFeatureRow(post),
                              reference_columns |-> reference_columns,
                              X |-> AlignFeatureColumns(PostFeatureRow(post),
                                                        reference_columns)]))
    /\ UNCHANGED <<store, predictor, detector, trains, reads>>

(***************************************************************************)
(* Specifications                                                          *)
(***************************************************************************)
\* predict_engagement(post) and find_anomalies(df) run to their end with no
\* other thread in between
PredictEngagement(t, post) ==
    /\ Idle(t)
    /\ th' = Answered(t, "predict_engagement", NoFrame, post,
                      PredictPostPerformance(predictor, post))
    /\ UNCHANGED <<store, predictor, detector, trains, reads>>

FindAnomalies(t, df) ==
    /\ Idle(t)
    /\ th' = Answered(t, "find_anomalies", df, NoPost, DetectAnomalies(detector, df))
    /\ UNCHANGED <<store, predictor, detector, trains, reads>>

\* the steps of the two train methods on the singletons
TrainSteps(t) ==
    \/ PTrainFeatures(t) \/ PTrainTargets(t) \/ PTrainScale(t) \/ PTrainNewModels(t)
    \/ PTrainFitLikes(t) \/ PTrainFitComments(t) \/ PTrainViewsModel(t)
    \/ PTrainFitViews(t) \/ PTrainTrained(t) \/ PTrainEngagement(t)
    \/ PTrainSaveViews(t)
    \/ DTrainBaseline(t) \/ DTrainFeatures(t) \/ DTrainScale(t) \/ DTrainNewModel(t)
    \/ DTrainFit(t) \/ DTrainTrained(t) \/ DTrainReturn(t)

\* their writes to the store, at every point where the process can stop
StoreSteps(t) ==
    \/ SaveDumpOpen(t) \/ SaveDumpDone(t) \/ SaveLoadRegistry(t)
    \/ SaveRegistryOpen(t) \/ SaveRegistryWrite(t)
    \/ PTrainSaveNamesOpen(t) \/ PTrainSaveNamesWrite(t)

\* their writes to the store, at every point where another thread can run
StoreStepsConc(t) ==
    \/ SaveModelDump(t) \/ SaveModelRegister(t) \/ PTrainSaveNames(t)

ReadSteps(t) ==
    \/ PredictAlign(t) \/ PredictTransform(t) \/ PredictModels(t) \/ PredictScore(t)
    \/ DetectRead(t) \/ DetectEmit(t)

\* one request at a time; the process may stop between any two steps of a call
Next ==
    \/ \E df \in PredictorBatches : TrainPredictorCall(MainThread, df)
    \/ \E df \in DetectorBatches : TrainDetectorCall(MainThread, df)
    \/ TrainSteps(MainThread)
    \/ StoreSteps(MainThread)
    \/ \E post \in Posts : PredictEngagement(MainThread, post)
    \/ \E df \in DetectBatches : FindAnomalies(MainThread, df)
    \/ Restart

Spec == Init /\ [][Next]_vars

\* the inputs of the threaded runs
ConcPredictorBatches == { Frame(<<Group(50, 5, 2, 40, "instagram")>>, MetricCols) }
ConcDetectorBatches == { Frame(<<Group(30, 4, 1, 20, "facebook")>>, MetricCols) }
ConcPosts == { [platform |-> "instagram", caption_length |-> 49, has_hash |-> TRUE,
                has_punct |-> TRUE, raw_shift |-> 0] }

\* the threaded server: the requests of two threads interleave step by step
NextConc ==
    \/ \E t \in Threads :
          \/ \E df \in ConcPredictorBatches : TrainPredictorCall(t, df)
          \/ \E df \in ConcDetectorBatches : TrainDetectorCall(t, df)
          \/ TrainSteps(t)
          \/ StoreStepsConc(t)
    \/ \E t \in Threads \ {MainThread} :
          \/ \E post \in ConcPosts : PredictCall(t, post)
          \/ \E df \in ConcDetectorBatches : DetectCall(t, df)
          \/ ReadSteps(t)

SpecConc == Init /\ [][NextConc]_vars

\* batches handed to find_anomalies while the detector is untrained: a likes
\* spike, a likes slump, twelve outliers, a spike a little over three times
\* the mean, an outlier in comments alone, an outlier in both, a row two
\* standard deviations out, a single row
RuleBatches ==
    { Frame(<<Group(10, 5, 1, 0, "instagram"), Group(1, 50, 1, 0, "instagram")>>, MetricCols),
      Frame(<<Group(10, 50, 2, 0, "instagram"), Group(1, 5, 2, 0, "instagram")>>, MetricCols),
      Frame(<<Group(100, 1, 1, 0, "instagram"), Group(6, 1, 9, 0, "instagram"),
              Group(6, 5, 1, 0, "instagram")>>, MetricCols),
      Frame(<<Group(5, 204, 1, 0, "instagram"), Group(5, 205, 1, 0, "instagram"),
              Group(1, 767, 1, 0, "instagram")>>, MetricCols),
      Frame(<<Group(10, 5, 1, 0, "instagram"), Group(1, 6, 40, 0, "instagram")>>, MetricCols),
      Frame(<<Group(1, 50, 40, 0, "instagram"), Group(10, 5, 1, 0, "instagram")>>, MetricCols),
      Frame(<<Group(5, 5, 1, 0, "instagram"), Group(1, 50, 1, 0, "instagram")>>, MetricCols),
      Frame(<<Group(1, 5, 1, 0, "instagram")>>, MetricCols) }

\* the analytics calls read the batch they are handed and nothing a call before
\* them has left, so a run is one call, made by a thread that has run nothing
NextAnalytics ==
    /\ th[MainThread] = FreshThread
    /\ \/ \E platform \in Platforms, history \in Histories :
             GetOptimalTime(MainThread, platform, history)
       \/ \E df \in Histories : AnalyzeTrends(MainThread, df)
       \/ \E df \in Histories : CheckEngagementDrop(MainThread, df)
       \/ \E df \in RuleBatches \cup DetectBatches : FindAnomalies(MainThread, df)
       \/ \E row \in FlaggedRows, df \in ConcDetectorBatches :
             ClassifyFlagged(MainThread, row, df)
       \/ \E post \in Posts, reference_columns \in ReferenceLists :
             AlignPostFeatures(MainThread, post, reference_columns)

SpecAnalytics == Init /\ [][NextAnalytics]_vars

(***************************************************************************)
(* Properties                                                              *)
(***************************************************************************)
\* no call has run since the process started
AllFresh == \A t \in Threads : th[t] = FreshThread

\* the call `call` of thread t has ended
Ended(t, call) == Idle(t) /\ th[t].call = call /\ th[t].ret.kind # "none"

\* the registry document parses, holds an entry for the artifact, and the
\* binary the entry refers to is whole
ArtifactLoadable(name) ==
    /\ regDoc.state = "ok"
    /\ regDoc.entries[name].present
    /\ files[<<name, regDoc.entries[name].version>>].state = "ok"

\* C1: a train call that returns success leaves its singleton trained; a
\* singleton built at process start is trained exactly when every required
\* artifact (predictor: scaler, likes, comments; detector: scaler, model) has a
\* registry entry and a whole binary, and is untrained otherwise.
C1_Lifecycle ==
    /\ \A t \in Threads :
          /\ (Ended(t, "train_predictor") /\ th[t].ret.kind = "success")
                => predictor.is_trained
          /\ (Ended(t, "train_detector") /\ th[t].ret.kind = "success")
                => detector.is_trained
    /\ AllFresh =>
          /\ predictor.is_trained
                <=> \A i \in DOMAIN PredictorRequired : ArtifactLoadable(PredictorRequired[i])
          /\ detector.is_trained
                <=> \A i \in DOMAIN DetectorArtifacts : ArtifactLoadable(DetectorArtifacts[i])

\* a process start that found the predictor whole and the detector half saved
C1_Witness ==
    /\ AllFresh
    /\ predictor.is_trained
    /\ ~detector.is_trained
    /\ ArtifactLoadable("anomaly_scaler")

\* C2: when a train call has returned, success or error, in a process that has
\* trained the predictor itself, the column list predict aligns to equals the
\* column list the scaler and the models in use were fitted on.
C2_SchemaMatchesFit ==
    (/\ Ended(MainThread, "train_predictor")
     /\ th[MainThread].ret.kind \in {"success", "error"}
     /\ predictor.is_trained /\ predictor.engagement.has) =>
        /\ predictor.feature_names = predictor.scaler.cols
        /\ predictor.feature_names = predictor.model_likes.cols
        /\ predictor.feature_names = predictor.model_comments.cols

\* C3: every artifact name the registry document holds has the binary of the
\* version it refers to on disk, at every step of every save_model call.
C3_RegistryBinaryExists ==
    \A n \in Names :
        LET entry == load_registry(regDoc)[n]
        IN  entry.present => files[<<n, entry.version>>].state # "none"

\* a later save_model of a registered artifact, stopped while the binary is
\* being rewritten
C3_Witness ==
    \E n \in Names :
        /\ regDoc.state = "ok"
        /\ regDoc.entries[n].present
        /\ files[<<n, regDoc.entries[n].version>>].state = "partial"
        /\ th[MainThread].pc = "dumping"

\* C4: load_model never raises; it returns None when the registry has no entry
\* for the name, when the registry document does not parse, and when the binary
\* is missing or cut short; it returns the stored object when the entry and the
\* whole binary exist; loading at process start leaves the store as it was.
C4_LoadModelTotal ==
    /\ [](\A n \in Names :
            LET got == load_model(n, regDoc, files)
            IN  /\ got.kind # "raise"
                /\ ArtifactLoadable(n) =>
                      got = files[<<n, regDoc.entries[n].version>>].obj
                /\ ~ArtifactLoadable(n) => got = NoneObj)
    /\ [][Restart => store' = store]_vars

\* a process start that found a registered binary cut short
C4_Witness ==
    /\ AllFresh
    /\ \E n \in Names :
          /\ regDoc.state = "ok"
          /\ regDoc.entries[n].present
          /\ files[<<n, regDoc.entries[n].version>>].state = "partial"

\* C5: once train has returned success, an instance loaded from the store gives
\* the same prediction for every post, and the same detection result for every
\* batch, as the instance that trained.
C5_RoundTrip ==
    /\ (Ended(MainThread, "train_predictor") /\ th[MainThread].ret.kind = "success") =>
          \A post \in Posts :
              PredictPostPerformance(LoadOrCreatePredictor(regDoc, files, namesDoc), post)
                  = PredictPostPerformance(predictor, post)
    /\ (Ended(MainThread, "train_detector") /\ th[MainThread].ret.kind = "success") =>
          \A df \in DetectBatches :
              DetectAnomalies(LoadOrCreateDetector(regDoc, files), df)
                  = DetectAnomalies(detector, df)

\* between the first write to the singleton and the last write to the store
InTrain(t) ==
    \/ th[t].op = "train_predictor" /\ th[t].pc # "features"
    \/ th[t].op = "train_detector" /\ th[t].pc \notin {"baseline", "d_return"}

\* C6: no two train calls on the same model are at the same time between their
\* first write to the singleton and their last write to the store.
C6_TrainMutualExclusion ==
    \A t1, t2 \in Threads :
        (t1 # t2 /\ th[t1].op = th[t2].op) => ~(InTrain(t1) /\ InTrain(t2))

\* C7: what a predict or detect call has read of a trained singleton (feature
\* names, scaler, models, engagement distribution; scaler, model, baselines)
\* is fitted and comes from one and the same training call.
C7_ReadsOneTraining ==
    \A t \in Threads :
        /\ (Ended(t, "predict_engagement") /\ th[t].snap.is_trained) =>
              LET snap == th[t].snap
                  g == snap.scaler.gen
              IN  /\ snap.scaler.fitted /\ snap.feature_names = snap.scaler.cols
                  /\ snap.model_likes.fitted /\ snap.model_likes.gen = g
                  /\ snap.model_comments.fitted /\ snap.model_comments.gen = g
                  /\ ~IsNone(snap.model_views) =>
                        snap.model_views.fitted /\ snap.model_views.gen = g
                  /\ snap.engagement.has /\ snap.engagement.gen = g
        /\ (Ended(t, "find_anomalies") /\ th[t].dsnap.is_trained) =>
              LET dsnap == th[t].dsnap
                  g == dsnap.scaler.gen
              IN  /\ dsnap.scaler.fitted
                  /\ dsnap.model.fitted /\ dsnap.model.gen = g
                  /\ dsnap.baseline_metrics.has /\ dsnap.baseline_metrics.gen = g

\* C8: train answers "not enough data" to a batch one row short of the minimum
\* (49, 29) and success to a batch of exactly the minimum (50, 30) that loses no
\* row to the zero-target filter.
C8_SampleGate ==
    /\ Ended(MainThread, "train_predictor") =>
          LET df == th[MainThread].df
              ret == th[MainThread].ret
          IN  /\ DfLen(df) = MIN_TRAIN_SAMPLES_PREDICTOR - 1
                    => ret = ErrorResult("not_enough_data")
              /\ (DfLen(df) = MIN_TRAIN_SAMPLES_PREDICTOR /\ ValidLen(df) = DfLen(df))
                    => ret.kind = "success"
    /\ Ended(MainThread, "train_detector") =>
          LET df == th[MainThread].df
              ret == th[MainThread].ret
          IN  /\ DfLen(df) = MIN_TRAIN_SAMPLES_DETECTOR - 1
                    => ret = ErrorResult("not_enough_data")
              /\ DfLen(df) = MIN_TRAIN_SAMPLES_DETECTOR => ret.kind = "success"

\* C9: train_predictor and train_detector end, for every batch, with a success
\* result or an {error: reason} result; no exception leaves them.
C9_TrainNeverRaises ==
    \A t \in Threads :
        (Ended(t, "train_predictor") \/ Ended(t, "train_detector"))
            => th[t].ret.kind \in {"success", "error"}

\* C10: with the detector trained by this process, find_anomalies on a batch
\* that has all its columns returns a list of anomalies.
C10_DetectAfterTrain ==
    (/\ Ended(MainThread, "find_anomalies")
     /\ detector.is_trained /\ detector.baseline_metrics.has
     /\ MetricCols \subseteq th[MainThread].df.cols)
        => th[MainThread].ret.kind = "anomalies"

\* C11: with a detector that was loaded from the store and has not been trained
\* by this process (trained, baselines empty), find_anomalies on a batch that
\* has all its columns returns a list of anomalies.
C11_DetectAfterReload ==
    (/\ Ended(MainThread, "find_anomalies")
     /\ detector.is_trained /\ ~detector.baseline_metrics.has
     /\ MetricCols \subseteq th[MainThread].df.cols)
        => th[MainThread].ret.kind = "anomalies"

\* ml_models_status(): the registry entries, and is_trained of the two singletons
MlModelsStatus(doc, p, d) ==
    LET reg == load_registry(doc)
        predictor_meta == IF reg["predictor_likes"].present THEN reg["predictor_likes"]
                          ELSE IF reg["predictor_scaler"].present THEN reg["predictor_scaler"]
                          ELSE NoEntry
        anomaly_meta == IF reg["anomaly_model"].present THEN reg["anomaly_model"]
                        ELSE NoEntry
    IN  [predictor |->
            [loaded |-> p.is_trained,
             version |-> predictor_meta.version,
             trained_on |-> predictor_meta.meta.gen,
             samples_trained |-> predictor_meta.meta.samples_trained,
             features_used |-> predictor_meta.meta.features_used],
         anomaly_detector |->
            [loaded |-> d.is_trained,
             version |-> anomaly_meta.version,
             trained_on |-> anomaly_meta.meta.gen,
             samples_trained |-> anomaly_meta.meta.samples_trained]]

\* C12: the status report of the running process equals the status report of a
\* process that has just started on the same store, and so on the same
\* registry: the report does not depend on the trained state held in memory.
C12_StatusFromRegistry ==
    MlModelsStatus(regDoc, predictor, detector)
        = MlModelsStatus(regDoc, LoadOrCreatePredictor(regDoc, files, namesDoc),
                         LoadOrCreateDetector(regDoc, files))

\* C13: for every post, whatever state the predictor is in (untrained, trained
\* by this process, loaded from the store), a prediction carries likes,
\* comments and views that are integers greater than or equal to 0.
C13_NonNegative ==
    /\ \A post \in Posts :
          LET r == PredictPostPerformance(predictor, post)
          IN  r.kind = "prediction" =>
                 /\ r.val.likes \in Nat
                 /\ r.val.comments \in Nat
                 /\ r.val.views \in Nat
    /\ (Ended(MainThread, "predict_engagement")
        /\ th[MainThread].ret.kind = "prediction") =>
          /\ th[MainThread].ret.val.likes \in Nat
          /\ th[MainThread].ret.val.comments \in Nat
          /\ th[MainThread].ret.val.views \in Nat

\* a trained predictor whose regressors answered below zero, clamped to 0
C13_Witness ==
    /\ Ended(MainThread, "predict_engagement")
    /\ th[MainThread].ret.val.confidence = "high"
    /\ predictor.model_likes.out + th[MainThread].post.raw_shift < 0
    /\ th[MainThread].ret.val.likes = 0

\* C14: for every post, whatever state the predictor is in, the virality score
\* of a prediction is an integer from 0 to 100.
C14_ViralityRange ==
    /\ \A post \in Posts :
          LET r == PredictPostPerformance(predictor, post)
          IN  r.kind = "prediction" => r.val.virality \in 0..100
    /\ (Ended(MainThread, "predict_engagement")
        /\ th[MainThread].ret.kind = "prediction") =>
          th[MainThread].ret.val.virality \in 0..100

\* a trained prediction at percentile rank 100 that also earns the boost
C14_Witness ==
    /\ Ended(MainThread, "predict_engagement")
    /\ th[MainThread].ret.val.confidence = "high"
    /\ predictor.engagement.has
    /\ LET val == th[MainThread].ret.val
       IN  /\ SearchSortedRight(predictor.engagement.dist, val.likes + val.comments)
                 = SumCounts(predictor.engagement.dist)
           /\ 2 * (val.likes + val.comments) > TwiceMedian(predictor.engagement.dist)
           /\ val.rate[1] > 5 * val.rate[2]
           /\ val.virality = 100

\* C15: an untrained predictor answers every post with a prediction; a
\* prediction has confidence "high" exactly when the trained models produced it
\* and confidence "low" with the note exactly when the baseline fallback did.
C15_ConfidenceTellsPath ==
    /\ \A post \in Posts :
          LET r == PredictPostPerformance(predictor, post)
          IN  /\ ~predictor.is_trained => r.kind = "prediction"
              /\ r.kind = "prediction" =>
                    /\ r.val.confidence = "high" <=> predictor.is_trained
                    /\ (r.val.confidence = "low" /\ r.val.note) <=> ~predictor.is_trained
    /\ (Ended(MainThread, "predict_engagement")
        /\ th[MainThread].ret.kind = "prediction") =>
          LET val == th[MainThread].ret.val
          IN  /\ val.confidence = "high" <=> predictor.is_trained
              /\ (val.confidence = "low" /\ val.note) <=> ~predictor.is_trained

\* an untrained predictor that has answered with the fallback
C15_Witness ==
    /\ Ended(MainThread, "predict_engagement")
    /\ ~predictor.is_trained
    /\ th[MainThread].ret.val.confidence = "low"
    /\ th[MainThread].ret.val.note

\* C16: when a train call returns success for a batch whose valid rows carry no
\* views, every post is then predicted with views = likes * 5.
C16_ViewsFromLastTraining ==
    (/\ Ended(MainThread, "train_predictor")
     /\ th[MainThread].ret.kind = "success"
     /\ ~HasViewsData(th[MainThread].df)) =>
        \A post \in Posts :
            LET r == PredictPostPerformance(predictor, post)
            IN  r.kind = "prediction" /\ r.val.views = r.val.likes * 5

\* C17: once the train call that started last has returned success, every
\* predictor artifact the registry holds carries the version and the metadata
\* that call returned.
C17_EntriesCarryReturnedMetadata ==
    \A t \in Threads :
        (/\ Ended(t, "train_predictor")
         /\ th[t].ret.kind = "success"
         /\ th[t].ret.meta.gen = trains) =>
            \A n \in {"predictor_scaler", "predictor_likes", "predictor_comments",
                      "predictor_views"} :
                LET entry == load_registry(regDoc)[n]
                IN  entry.present =>
                       /\ entry.version = th[t].ret.version
                       /\ entry.meta = th[t].ret.meta

\* C18: the validation scores and the quantile table a successful train call
\* returns are those of a fit of its batch alone, whatever the instance held
\* before the call.
C18_TrainDeterministic ==
    (Ended(MainThread, "train_predictor") /\ th[MainThread].ret.kind = "success") =>
        LET df == th[MainThread].df
            meta == th[MainThread].ret.meta
        IN  /\ meta.val_r2_likes
                  = [cols |-> FeatureColumns(df), out |-> FittedValue(df, "likes")]
            /\ meta.val_r2_comments
                  = [cols |-> FeatureColumns(df), out |-> FittedValue(df, "comments")]
            /\ meta.quantiles = QuantileTable(EngagementSorted(df))

\* a second successful training, on an instance that still holds the views
\* model of the first
C18_Witness ==
    /\ Ended(MainThread, "train_predictor")
    /\ th[MainThread].ret.kind = "success"
    /\ th[MainThread].ret.meta.gen = 2
    /\ predictor.model_views.fitted /\ predictor.model_views.gen = 1

\* C19: a prediction of the trained path carries the percentile rank of
\* likes + comments in the engagement distribution of the training rows,
\* truncated, plus 5 capped at 100 exactly when the total is above the training
\* median and the engagement rate above 5; the rate is (likes + comments) /
\* views * 100 when views > 0 and 5 otherwise.
C19_ViralityIsPercentileRank ==
    (/\ Ended(MainThread, "predict_engagement")
     /\ th[MainThread].ret.kind = "prediction"
     /\ th[MainThread].ret.val.confidence = "high") =>
        LET val == th[MainThread].ret.val
            total == val.likes + val.comments
            dist == predictor.engagement.dist
        IN  /\ val.rate = IF val.views > 0 THEN <<total * 100, val.views>> ELSE <<5, 1>>
            /\ predictor.engagement.has /\ dist # <<>>
            /\ LET rank == (SearchSortedRight(dist, total) * 100) \div SumCounts(dist)
                   boost == 2 * total > TwiceMedian(dist) /\ val.rate[1] > 5 * val.rate[2]
               IN  val.virality = IF boost THEN Min(100, rank + 5) ELSE rank

\* C20: an untrained predictor answers with the platform baseline times
\* 1 + 0.2 (caption longer than 100) + 0.1 ('#') + 0.1 ('!' or '?'), and with
\* the engagement rate and the virality score of the trained path's formulas.
C20_FallbackUsesTrainedFormulas ==
    (Ended(MainThread, "predict_engagement") /\ ~predictor.is_trained) =>
        LET post == th[MainThread].post
            val == th[MainThread].ret.val
            base == FallbackBaselines[post.platform]
            tenths == 10 + (IF post.caption_length > 100 THEN 2 ELSE 0)
                         + (IF post.has_hash THEN 1 ELSE 0)
                         + (IF post.has_punct THEN 1 ELSE 0)
        IN  /\ val.likes * 10 = base.likes * tenths
            /\ val.comments * 10 = base.comments * tenths
            /\ val.views * 10 = base.views * tenths
            /\ val.rate = IF val.views > 0
                          THEN <<(val.likes + val.comments) * 100, val.views>>
                          ELSE <<5, 1>>
            /\ val.virality
                  = ViralityScore(predictor.engagement, val.likes + val.comments, val.rate)

\* the keys listed are the best three by mean of likes + 3 * comments, best first
IsTop3(rows, field, listed) ==
    LET keys == {rows[i][field] : i \in {j \in DOMAIN rows : ~rows[j].nat}}
        mean_ge(k, j) ==
            BucketStat(rows, field, k)[1] * BucketStat(rows, field, j)[2]
                >= BucketStat(rows, field, j)[1] * BucketStat(rows, field, k)[2]
    IN  /\ Len(listed) = Min(3, Cardinality(keys))
        /\ \A i \in DOMAIN listed : listed[i] \in keys
        /\ \A i, j \in DOMAIN listed : i < j =>
              listed[i] # listed[j] /\ mean_ge(listed[i], listed[j])
        /\ \A i \in DOMAIN listed : \A k \in keys \ SeqToSet(listed) : mean_ge(listed[i], k)

\* C21: get_optimal_time answers a history of fewer than 10 rows with the
\* default table and confidence "low"; for every longer history, one with
\* missing or unparseable dates included, it answers with the three best hours
\* and the three best weekdays by descending mean of likes + 3 * comments, a
\* recommendation naming the best day and hour, and confidence "high" for more
\* than 50 rows and "medium" otherwise.
C21_OptimalTime ==
    Ended(MainThread, "get_optimal_time") =>
        LET history == th[MainThread].df
            ret == th[MainThread].ret
        IN  /\ ret.kind = "optimal_time"
            /\ Len(history) < 10 =>
                  /\ ret.val.confidence = "low"
                  /\ ret.val.best_hours \in {<<9, 12, 19>>, <<13, 15, 20>>,
                                             <<8, 12, 17>>, <<14, 16, 20>>}
            /\ Len(history) >= 10 =>
                  /\ ret.val.confidence = IF Len(history) > 50 THEN "high" ELSE "medium"
                  /\ IsTop3(history, "hour", ret.val.best_hours)
                  /\ \E days \in [DOMAIN ret.val.best_days -> 0..6] :
                        /\ IsTop3(history, "dow", days)
                        /\ \A i \in DOMAIN days : ret.val.best_days[i] = day_names[days[i] + 1]
                  /\ ret.val.recommendation = <<ret.val.best_days[1], ret.val.best_hours[1]>>

\* C22: analyze_trends labels the percent change of the mean likes of the last
\* 7 rows against the mean likes of the first 7 rows in date order: above 20
\* strongly_increasing, above 10 increasing, below -20 strongly_decreasing,
\* below -10 decreasing, otherwise stable, the change being 0 when the first
\* mean is 0; the result carries overall_trend, likes_change_percent,
\* comments_change_percent, alert and recommendation.
C22_TrendFromWindows ==
    Ended(MainThread, "analyze_trends") =>
        LET sorted == SortValues(th[MainThread].df)
            n == Len(sorted)
            first == SumField(SubSeq(sorted, 1, Min(7, n)), "likes")
            last == SumField(SubSeq(sorted, Max(1, n - 6), n), "likes")
            ret == th[MainThread].ret
        IN  /\ ret.kind = "trends"
            /\ {"overall_trend", "likes_change_percent", "comments_change_percent",
                "alert", "recommendation"} \subseteq DOMAIN ret.val
            /\ ret.val.overall_trend =
                  IF first = 0 THEN "stable"
                  ELSE IF (last - first) * 100 > 20 * first THEN "strongly_increasing"
                  ELSE IF (last - first) * 100 > 10 * first THEN "increasing"
                  ELSE IF (last - first) * 100 < -20 * first THEN "strongly_decreasing"
                  ELSE IF (last - first) * 100 < -10 * first THEN "decreasing"
                  ELSE "stable"

\* a frame listed latest first whose likes rose by more than 10 and not more
\* than 20 percent
C22_Witness ==
    /\ Ended(MainThread, "analyze_trends")
    /\ th[MainThread].ret.val.overall_trend = "increasing"
    /\ th[MainThread].df[1].value > th[MainThread].df[2].value

\* C23: check_engagement_drop answers insufficient_data for fewer than 10 rows
\* and no_baseline when the likes + comments of the 5 rows before the last 5
\* sum to 0; otherwise drop_detected holds exactly when the percent change of
\* the last-5 mean against the prior-5 mean is below -30, possible_causes is
\* non-empty exactly when drop_detected holds, and a detected drop has
\* severity "medium" or "high".
C23_EngagementDrop ==
    Ended(MainThread, "check_engagement_drop") =>
        LET sorted == SortValues(th[MainThread].df)
            n == Len(sorted)
            engagement(rows) == SumField(rows, "likes") + SumField(rows, "comments")
            recent == engagement(SubSeq(sorted, n - 4, n))
            previous == engagement(SubSeq(sorted, n - 9, n - 5))
            ret == th[MainThread].ret
        IN  /\ ret.kind = "drop"
            /\ n < 10 => ret.val.status = "insufficient_data"
            /\ (n >= 10 /\ previous = 0) => ret.val.status = "no_baseline"
            /\ (n >= 10 /\ previous # 0) =>
                  /\ ret.val.drop_detected <=> (recent - previous) * 100 < -30 * previous
                  /\ ret.val.possible_causes # <<>> <=> ret.val.drop_detected
                  /\ ret.val.drop_detected => ret.val.severity \in {"medium", "high"}

\* a drop of more than 30 and not more than 50 percent
C23_Witness ==
    /\ Ended(MainThread, "check_engagement_drop")
    /\ th[MainThread].ret.val.status = ""
    /\ th[MainThread].ret.val.drop_detected
    /\ th[MainThread].ret.val.severity = "medium"

\* a call of find_anomalies that took the rule-based path and returned its list
RuleBasedEnded ==
    /\ Ended(MainThread, "find_anomalies")
    /\ th[MainThread].ret.kind = "anomalies"
    /\ th[MainThread].ret.what = "rule_based"

Abs(x) == IF x < 0 THEN -x ELSE x

\* x lies outside [max(0, mean - 3 std), mean + 3 std] for n values (none of
\* them negative) with the given sum and sum of squares
OutsideThreeSigma(x, n, sum, squares) ==
    /\ n >= 2
    /\ (n * x - sum) * (n * x - sum) * (n - 1) > 9 * n * (n * squares - sum * sum)

\* C24: the rule-based detector returns rows whose likes or comments lie
\* outside the band [max(0, mean - 3 std), mean + 3 std] of the batch and no
\* other row; it returns all of them up to 10, in descending order of the
\* absolute likes deviation the records carry, and a row it leaves out has no
\* larger deviation than a row it returns.
C24_RuleBasedBand ==
    RuleBasedEnded =>
        LET gs == th[MainThread].df.groups
            n == DfLen(th[MainThread].df)
            rows == th[MainThread].ret.val
            outside(g) ==
                \/ OutsideThreeSigma(g.likes, n, GroupSum(gs, "likes", 1),
                                     GroupSum(gs, "likes", 2))
                \/ OutsideThreeSigma(g.comments, n, GroupSum(gs, "comments", 1),
                                     GroupSum(gs, "comments", 2))
            flagged == SelectSeq(gs, outside)
            of(g) == SelectSeq(rows, LAMBDA r : r.likes = g.likes /\ r.comments = g.comments)
        IN  /\ \A i \in DOMAIN rows :
                  \E j \in DOMAIN flagged : of(flagged[j]) # <<>> /\ rows[i] \in SeqToSet(of(flagged[j]))
            /\ SumCounts(rows) = Min(10, SumCounts(flagged))
            /\ \A i, j \in DOMAIN rows :
                  i < j => Abs(rows[i].deviation_likes) >= Abs(rows[j].deviation_likes)
            /\ \A j \in DOMAIN flagged :
                  SumCounts(of(flagged[j])) < flagged[j].count =>
                      \A i \in DOMAIN rows :
                          Abs(rows[i].deviation_likes)
                              >= Abs(CalcDeviation(flagged[j].likes, n, GroupSum(gs, "likes", 1)))

\* twelve rows outside the band, of which ten are returned
C24_Witness ==
    /\ RuleBasedEnded
    /\ SumCounts(th[MainThread].ret.val) = 10
    /\ Len(th[MainThread].ret.val) = 2
    /\ DfLen(th[MainThread].df) = 112

C27_SchemaAlignment ==
    Ended(MainThread, "align_feature_columns") =>
        /\ th[MainThread].ret.kind = "aligned"
        /\ LET current == th[MainThread].ret.val.current
               reference_columns == th[MainThread].ret.val.reference_columns
               X == th[MainThread].ret.val.X
           IN  /\ X.columns = reference_columns
               /\ DOMAIN X.row = SeqToSet(reference_columns)
               /\ \A c \in DOMAIN X.row :
                     X.row[c] = IF c \in SeqToSet(current.columns)
                                THEN current.row[c] ELSE 0

\* an instagram post aligned to the schema of a batch of youtube and twitter
\* rows: two columns are filled with 0 and platform_instagram is dropped
C27_Witness ==
    /\ Ended(MainThread, "align_feature_columns")
    /\ th[MainThread].post.platform = "instagram"
    /\ "platform_instagram" \in SeqToSet(th[MainThread].ret.val.current.columns)
    /\ "platform_instagram" \notin DOMAIN th[MainThread].ret.val.X.row
    /\ "platform_youtube" \notin SeqToSet(th[MainThread].ret.val.current.columns)
    /\ "platform_youtube" \in DOMAIN th[MainThread].ret.val.X.row
    /\ th[MainThread].ret.val.X.row["platform_youtube"] = 0
    /\ th[MainThread].ret.val.X.row["caption_length"] = 49

\* a step of thread t that belongs to a train call which returns an error: the
\* step that returns it, or a step of a predictor train call whose batch has
\* the target columns and fewer than MIN_VALID_ROWS rows with likes and
\* comments above 0
FailedTrainStep(t) ==
    /\ th'[t] # th[t]
    /\ th'[t].call \in {"train_predictor", "train_detector"}
    /\ \/ th'[t].ret.kind = "error"
       \/ /\ th'[t].op = "train_predictor"
          /\ MetricCols \subseteq th'[t].df.cols
          /\ ValidLen(th'[t].df) < MIN_VALID_ROWS

\* C28: a train call that returns an error leaves the trained state of the
\* instances (is_trained, feature schema, scaler, models, baselines) and the
\* storage (registry, binaries, schema document) as they were before the call:
\* no step of such a call changes any of them.
C28_FailedTrainFrame ==
    [][\A t \in Threads : FailedTrainStep(t) => UNCHANGED <<predictor, detector, store>>]_vars

\* the process stops while a thread is inside a train call, and starts again
RestartDuringTrain ==
    /\ \E t \in Threads :
          ~Idle(t) /\ th[t].call \in {"train_predictor", "train_detector"}
    /\ th' = [t \in Threads |-> FreshThread]

\* C29: when the process stops during a predictor or detector train call, the
\* instances loaded at the next start are untrained or have their scaler, each
\* of their models and the predictor's feature schema from one and the same
\* training call.
C29_CrashKeepsOneTraining ==
    [][RestartDuringTrain =>
          /\ predictor'.is_trained =>
                /\ predictor'.model_likes.gen = predictor'.scaler.gen
                /\ predictor'.model_comments.gen = predictor'.scaler.gen
                /\ ~IsNone(predictor'.model_views) =>
                      predictor'.model_views.gen = predictor'.scaler.gen
                /\ predictor'.feature_names = predictor'.scaler.cols
          /\ detector'.is_trained => detector'.model.gen = detector'.scaler.gen]_vars

\* C30: when save_model calls for different artifact names overlap and each
\* returns true, the registry document afterwards holds an entry for every one
\* of the names: once no call is running, the artifacts a successful train call
\* has saved all have their entry.
C30_RegistryKeepsEntries ==
    (\A t \in Threads : Idle(t)) =>
        \A t \in Threads :
            /\ (th[t].call = "train_predictor" /\ th[t].ret.kind = "success") =>
                  \A name \in {"predictor_scaler", "predictor_likes", "predictor_comments"} :
                      regDoc.state = "ok" /\ regDoc.entries[name].present
            /\ (th[t].call = "train_detector" /\ th[t].ret.kind = "success") =>
                  \A name \in {"anomaly_scaler", "anomaly_model"} :
                      regDoc.state = "ok" /\ regDoc.entries[name].present

====
